---- MODULE Spec2Model ----
(***************************************************************************)
(* Model of pyswd: the ST-Link USB transport (swd/stlinkcom.py) and the    *)
(* action engine of the command line application (swd/_app.py).            *)
(*                                                                         *)
(* Five specifications share the module:                                   *)
(*   SpecSelect  - StlinkCom.__init__: enumeration, filtering, selection   *)
(*   SpecXfer    - StlinkCom.xfer on a bound session, step by step         *)
(*   SpecActions - Application.process_actions over a batch of actions     *)
(*   SpecConvert - convert_numeric on one literal                          *)
(*   SpecPrint   - print_buffer on one buffer                              *)
(* Python strings are TLA+ strings (Len, SubSeq and \o apply to them),     *)
(* lists of bytes are sequences of integers.                               *)
(***************************************************************************)
EXTENDS Integers, Sequences, FiniteSets, TLC

VARIABLES
    \* ---- device selection (StlinkCom.__init__) ----
    usb_backend,    \* TRUE when libusb has a backend (usb.core.find works)
    attached,       \* [V2 |-> <<raw serial, ...>>, V21 |-> <<...>>] on the bus
    serial_arg,     \* the serial_no argument of StlinkCom(serial_no)
    sel_pc,         \* "new" before the constructor ran, "done" after
    com_dev,        \* StlinkCom._dev: NoDev or the selected device
    sel_exc,        \* exception leaving the constructor
    \* ---- one session's transport (StlinkComBase / StlinkCom.xfer) ----
    dev_cls,        \* profile of the bound device: "V2" or "V21"
    dev_usb,        \* StlinkComBase._dev: "open" or "None"
    usb_finalized,  \* number of finalize() calls made on the usb device
    xfer_pc,        \* position inside xfer: idle, write_cmd, write_data, read
    cmd_arg,        \* the command as the caller passed it to xfer
    command,        \* the caller's command list (xfer pads it in place)
    data,           \* the data argument: [present, bytes]
    rx_length,      \* the rx_length argument
    io_log,         \* device operations issued by the current xfer, in order
    xfer_status,    \* "none", "returned" or "raised" for the last xfer
    xfer_ret,       \* value returned by the last xfer: [none, bytes]
    xfer_exc,       \* exception type raised by the last xfer
    n_xfers,        \* number of xfer calls made so far
    base_deleted,   \* TRUE once StlinkComBase.__del__ ran for the session
    \* ---- the action engine (Application.process_actions) ----
    actions,        \* Application._actions: the batch, a list of strings
    verbose,        \* Application._verbose
    isatty,         \* sys.stdout.isatty()
    app_pc,         \* "loop", "handler", "returned" or "raised"
    act_i,          \* position of the for loop in the batch, from 1
    h_name,         \* action_parts[0] of the entry whose handler runs
    h_params,       \* action_parts[1:] of that entry
    h_rets,         \* values returned to the running handler so far
    trace,          \* handler invocations and debug-core calls, in order
    stdout,         \* what was printed, one element per print call
    h_exc,          \* the exception as raised inside the failing handler
    fail_i,         \* the entry at which the first exception was raised, or 0
    app_err,        \* the exception that left process_actions
    core_halted,    \* debug core: the core is halted
    core_regs,      \* debug core: register name -> value
    mem,            \* debug core: target memory, address -> byte
    \* ---- the helper functions of swd/_app.py, called on their own ----
    conv_pc,        \* convert_numeric: "idle", "call" or "returned"
    conv_num,       \* its argument num
    conv_max_bits,  \* its argument max_bits
    conv_ret,       \* what it returned or raised: [exc, val]
    pb_pc,          \* print_buffer: "idle", "call" or "returned"
    pb_addr,        \* its argument addr
    pb_data,        \* its argument data
    pb_width        \* its argument hex_line, as the width of a unit: 1, 2, 4

selVars  == <<usb_backend, attached, serial_arg, sel_pc, com_dev, sel_exc>>
xferVars == <<dev_cls, dev_usb, usb_finalized, xfer_pc, cmd_arg, command, data,
              rx_length, io_log, xfer_status, xfer_ret, xfer_exc, n_xfers,
              base_deleted>>
appVars  == <<actions, verbose, isatty, app_pc, act_i, h_name, h_params, h_rets,
              trace, stdout, h_exc, fail_i, app_err, core_halted, core_regs, mem>>
fnVars   == <<conv_pc, conv_num, conv_max_bits, conv_ret, pb_pc, pb_addr, pb_data,
              pb_width>>
vars     == <<selVars, xferVars, appVars, fnVars>>

(***************************************************************************)
(* Bounds of the model.                                                    *)
(***************************************************************************)
MaxDevices == 3     \* devices attached to the bus, over both profiles
MaxXfers   == 2     \* xfer calls in one session
MaxRx      == 3     \* largest rx_length requested
MaxBatch   == 2     \* entries in a batch of actions
MaxChunks  == 3     \* 16 byte windows in a buffer given to print_buffer

Min(a, b) == IF a < b THEN a ELSE b

(***************************************************************************)
(* swd/stlinkcom.py: device profiles and serial numbers.                   *)
(***************************************************************************)
_STLINK_CMD_SIZE == 16

PIPE_OUT(cls) == IF cls = "V2" THEN 2 ELSE 1
PIPE_IN(cls)  == 129

_COM_CLASSES == <<"V2", "V21">>

HexDigit(n) == SubSeq("0123456789ABCDEF", n + 1, n + 1)

\* '%X' % n
RECURSIVE HexUpper(_)
HexUpper(n) == IF n < 16 THEN HexDigit(n)
               ELSE HexUpper(n \div 16) \o HexDigit(n % 16)

\* '%02X' % n : at least two digits, zero filled
Hex02X(n) == IF n < 16 THEN "0" \o HexDigit(n) ELSE HexUpper(n)

\* StlinkComBase.serial_no: the code points of the usb serial, in hex
RECURSIVE HexJoin(_)
HexJoin(raw) == IF raw = <<>> THEN ""
                ELSE Hex02X(Head(raw)) \o HexJoin(Tail(raw))

serial_no(dev) == HexJoin(dev.serial_number)

startswith(s, p) == Len(p) <= Len(s) /\ SubSeq(s, 1, Len(p)) = p
endswith(s, p)   == Len(p) <= Len(s) /\ SubSeq(s, Len(s) - Len(p) + 1, Len(s)) = p

NoDev == [cls |-> "None", serial_number |-> <<>>]

NoExc == [type |-> "none", serial_numbers |-> <<>>]

\* StlinkComBase.find_all for one profile: a wrapper per usb device found
RECURSIVE find_all(_, _)
find_all(cls, raws) ==
    IF raws = <<>> THEN <<>>
    ELSE <<[cls |-> cls, serial_number |-> Head(raws)]>> \o find_all(cls, Tail(raws))

\* StlinkCom._find_all_devices: the profiles in _COM_CLASSES order
RECURSIVE _find_all_devices(_, _)
_find_all_devices(bus, i) ==
    IF i > Len(_COM_CLASSES) THEN <<>>
    ELSE find_all(_COM_CLASSES[i], bus[_COM_CLASSES[i]]) \o _find_all_devices(bus, i + 1)

\* StlinkCom._filter_devices
RECURSIVE _filter_devices_prefix_only(_, _)
_filter_devices_prefix_only(devices, sn) ==
    IF devices = <<>> THEN <<>>
    ELSE LET dev    == Head(devices)
             serial == serial_no(dev)
             rest   == _filter_devices_prefix_only(Tail(devices), sn)
         IN  IF startswith(serial, sn) THEN <<dev>> \o rest ELSE rest

RECURSIVE _filter_devices(_, _)
_filter_devices(devices, sn) ==
    IF devices = <<>> THEN <<>>
    ELSE LET dev    == Head(devices)
             serial == serial_no(dev)
             rest   == _filter_devices(Tail(devices), sn)
         IN  IF startswith(serial, sn) \/ endswith(serial, sn)
             THEN <<dev>> \o rest
             ELSE rest

\* StlinkComMoreDevices.__init__: the serial numbers carried by the error
StlinkComMoreDevices(devices) ==
    [type |-> "StlinkComMoreDevices",
     serial_numbers |-> [i \in 1..Len(devices) |-> serial_no(devices[i])]]

\* StlinkCom.__init__, after enumeration and filtering: zero candidates is
\* StlinkComNotFound, more than one StlinkComMoreDevices, else bind the one
StlinkCom_init_select_first(devices) ==
    IF devices = <<>>
    THEN [dev |-> NoDev, exc |-> [type |-> "StlinkComNotFound", serial_numbers |-> <<>>]]
    ELSE [dev |-> devices[1], exc |-> NoExc]

StlinkCom_init_select(devices) ==
    IF devices = <<>>
    THEN [dev |-> NoDev, exc |-> [type |-> "StlinkComNotFound", serial_numbers |-> <<>>]]
    ELSE IF Len(devices) > 1
    THEN [dev |-> NoDev, exc |-> StlinkComMoreDevices(devices)]
    ELSE [dev |-> devices[1], exc |-> NoExc]

\* StlinkCom.__init__
StlinkCom_init ==
    /\ sel_pc = "new"
    /\ sel_pc' = "done"
    /\ IF ~usb_backend
       THEN \* find_all: usb.NoBackendError becomes StlinkComException
            /\ com_dev' = NoDev
            /\ sel_exc' = [type |-> "StlinkComException", serial_numbers |-> <<>>]
       ELSE LET found   == _find_all_devices(attached, 1)
                devices == IF serial_arg # "" THEN _filter_devices(found, serial_arg)
                           ELSE found
                outcome == StlinkCom_init_select(devices)
            IN  /\ com_dev' = outcome.dev
                /\ sel_exc' = outcome.exc
    /\ UNCHANGED <<usb_backend, attached, serial_arg>>
    /\ UNCHANGED xferVars
    /\ UNCHANGED appVars
    /\ UNCHANGED fnVars

(***************************************************************************)
(* swd/stlinkcom.py: StlinkComBase.write / read and StlinkCom.xfer.        *)
(* The usb device is the environment: a write reports a byte count or      *)
(* faults with USBError, a read delivers up to the requested number of     *)
(* bytes or faults with USBError.                                          *)
(***************************************************************************)
USBError == -1

\* what usb write(pipe, data) can report for n bytes: a fault, everything
\* written, or a short count
WriteOutcomes(n) == {USBError, n} \cup ({0, n - 1} \cap (0..(n - 1)))

RxByte(i) == 127 + i

\* what usb read(pipe, n) can deliver: a fault, or up to n bytes
ReadOutcomes(n) ==
    { [fault |-> TRUE, bytes |-> <<>>] } \cup
    { [fault |-> FALSE, bytes |-> [i \in 1..k |-> RxByte(i)]] : k \in 0..n }

WriteOp(cls, bytes, count) ==
    [op |-> "write", pipe |-> PIPE_OUT(cls), bytes |-> bytes,
     size |-> Len(bytes), result |-> count]

ReadOp(cls, size, result) ==
    [op |-> "read", pipe |-> PIPE_IN(cls), bytes |-> <<>>,
     size |-> size, result |-> result]

\* StlinkComBase.write(data): the device operation issued, the handle left
\* in _dev and the exception raised, for the count the device reports
write_unchecked(usb, cls, bytes, count) ==
    IF usb = "None"
    THEN [usb |-> usb, log |-> <<>>, exc |-> "AttributeError"]
    ELSE IF count = USBError
    THEN [usb |-> "None", log |-> <<WriteOp(cls, bytes, count)>>,
          exc |-> "StlinkComException"]
    ELSE [usb |-> usb, log |-> <<WriteOp(cls, bytes, count)>>, exc |-> "none"]

write(usb, cls, bytes, count) ==
    IF usb = "None"
    THEN [usb |-> usb, log |-> <<>>, exc |-> "AttributeError"]
    ELSE IF count = USBError
    THEN [usb |-> "None", log |-> <<WriteOp(cls, bytes, count)>>,
          exc |-> "StlinkComException"]
    ELSE IF count # Len(bytes)
    THEN [usb |-> usb, log |-> <<WriteOp(cls, bytes, count)>>,
          exc |-> "StlinkComException"]
    ELSE [usb |-> usb, log |-> <<WriteOp(cls, bytes, count)>>, exc |-> "none"]

\* StlinkComBase.read(size): as write; the delivered list is cut to size
read(usb, cls, size, outcome) ==
    LET read_size == size
    IN  IF usb = "None"
        THEN [usb |-> usb, log |-> <<>>, exc |-> "AttributeError", bytes |-> <<>>]
        ELSE IF outcome.fault
        THEN [usb |-> "None", log |-> <<ReadOp(cls, read_size, USBError)>>,
              exc |-> "StlinkComException", bytes |-> <<>>]
        ELSE [usb |-> usb,
              log |-> <<ReadOp(cls, read_size, Len(outcome.bytes))>>,
              exc |-> "none",
              bytes |-> SubSeq(outcome.bytes, 1, Min(size, Len(outcome.bytes)))]

Zeros(n) == [i \in 1..n |-> 0]

\* command += [0] * (_STLINK_CMD_SIZE - len(command))
pad_truncating(cmd) == SubSeq(cmd \o Zeros(_STLINK_CMD_SIZE), 1, _STLINK_CMD_SIZE - 1)

pad(cmd) == cmd \o Zeros(_STLINK_CMD_SIZE - Len(cmd))

\* len(command) > _STLINK_CMD_SIZE
too_many_bytes_off_by_one(cmd) == Len(cmd) > _STLINK_CMD_SIZE + 1

too_many_bytes(cmd) == Len(cmd) > _STLINK_CMD_SIZE

\* Python truth of the data argument: None and the empty list are false
Truthy(d) == d.present /\ d.bytes # <<>>

Raise(exc) ==
    /\ xfer_pc' = "idle"
    /\ xfer_status' = "raised"
    /\ xfer_exc' = exc
    /\ xfer_ret' = [none |-> TRUE, bytes |-> <<>>]

Return(val) ==
    /\ xfer_pc' = "idle"
    /\ xfer_status' = "returned"
    /\ xfer_exc' = "none"
    /\ xfer_ret' = val

Continue(pc) ==
    /\ xfer_pc' = pc
    /\ UNCHANGED <<xfer_status, xfer_exc, xfer_ret>>

\* xfer(command, data, rx_length): entry, length check and padding
XferCall(cmd, d, rx) ==
    /\ xfer_pc = "idle"
    /\ ~base_deleted
    /\ n_xfers < MaxXfers
    /\ n_xfers' = n_xfers + 1
    /\ cmd_arg' = cmd
    /\ data' = d
    /\ rx_length' = rx
    /\ io_log' = <<>>
    /\ IF too_many_bytes(cmd)
       THEN /\ command' = cmd
            /\ Raise("StlinkComException")
       ELSE /\ command' = pad(cmd)
            /\ xfer_pc' = "write_cmd"
            /\ xfer_status' = "none"
            /\ xfer_exc' = "none"
            /\ xfer_ret' = [none |-> TRUE, bytes |-> <<>>]
    /\ UNCHANGED <<dev_cls, dev_usb, usb_finalized, base_deleted>>
    /\ UNCHANGED selVars
    /\ UNCHANGED appVars
    /\ UNCHANGED fnVars

\* what follows the command write: if data / if rx_length / return None
after_command(d, rx) ==
    IF Truthy(d) THEN "write_data" ELSE IF rx # 0 THEN "read" ELSE "return"

\* what follows the data write: if rx_length / return None
after_data(rx) == IF rx # 0 THEN "read" ELSE "return"

\* self._dev.write(command, tout)
XferWriteCommand ==
    /\ xfer_pc = "write_cmd"
    /\ \E count \in WriteOutcomes(Len(command)) :
          LET r    == write(dev_usb, dev_cls, command, count)
              next == after_command(data, rx_length)
          IN  /\ dev_usb' = r.usb
              /\ io_log' = io_log \o r.log
              /\ IF r.exc # "none" THEN Raise(r.exc)
                 ELSE IF next = "return" THEN Return([none |-> TRUE, bytes |-> <<>>])
                 ELSE Continue(next)
    /\ UNCHANGED <<dev_cls, usb_finalized, cmd_arg, command, data, rx_length, n_xfers,
                   base_deleted>>
    /\ UNCHANGED selVars
    /\ UNCHANGED appVars
    /\ UNCHANGED fnVars

\* if data: self._dev.write(data, tout)
XferWriteData ==
    /\ xfer_pc = "write_data"
    /\ \E count \in WriteOutcomes(Len(data.bytes)) :
          LET r    == write(dev_usb, dev_cls, data.bytes, count)
              next == after_data(rx_length)
          IN  /\ dev_usb' = r.usb
              /\ io_log' = io_log \o r.log
              /\ IF r.exc # "none" THEN Raise(r.exc)
                 ELSE IF next = "return" THEN Return([none |-> TRUE, bytes |-> <<>>])
                 ELSE Continue(next)
    /\ UNCHANGED <<dev_cls, usb_finalized, cmd_arg, command, data, rx_length, n_xfers,
                   base_deleted>>
    /\ UNCHANGED selVars
    /\ UNCHANGED appVars
    /\ UNCHANGED fnVars

\* if rx_length: return self._dev.read(rx_length)
XferRead ==
    /\ xfer_pc = "read"
    /\ \E outcome \in ReadOutcomes(rx_length) :
          LET r == read(dev_usb, dev_cls, rx_length, outcome)
          IN  /\ dev_usb' = r.usb
              /\ io_log' = io_log \o r.log
              /\ IF r.exc # "none" THEN Raise(r.exc)
                 ELSE Return([none |-> FALSE, bytes |-> r.bytes])
    /\ UNCHANGED <<dev_cls, usb_finalized, cmd_arg, command, data, rx_length, n_xfers,
                   base_deleted>>
    /\ UNCHANGED selVars
    /\ UNCHANGED appVars
    /\ UNCHANGED fnVars

\* StlinkComBase.__del__ of the session's device, when the session ends
BaseDel ==
    /\ xfer_pc = "idle"
    /\ ~base_deleted
    /\ base_deleted' = TRUE
    /\ usb_finalized' = IF dev_usb # "None" THEN usb_finalized + 1 ELSE usb_finalized
    /\ UNCHANGED <<dev_cls, dev_usb, xfer_pc, cmd_arg, command, data, rx_length, io_log,
                   xfer_status, xfer_ret, xfer_exc, n_xfers>>
    /\ UNCHANGED selVars
    /\ UNCHANGED appVars
    /\ UNCHANGED fnVars

(***************************************************************************)
(* swd/_app.py: numeric literals.  Python integers are unbounded, so a     *)
(* value is [neg, mag] with mag its magnitude in base 256, least           *)
(* significant byte first and without leading zero bytes.                  *)
(***************************************************************************)
\* a local variable: F(v), with v computed once however often F uses it
Bind(v, F(_)) == CHOOSE r \in { F(x) : x \in {v} } : TRUE

Ch(s, i) == SubSeq(s, i, i)

\* position of the one-character string c in s, 0 when absent
RECURSIVE IndexOf(_, _, _)
IndexOf(s, c, i) == IF i > Len(s) THEN 0
                    ELSE IF Ch(s, i) = c THEN i
                    ELSE IndexOf(s, c, i + 1)

Zero == [neg |-> FALSE, mag |-> <<>>]

RECURSIVE Limbs(_)
Limbs(n) == IF n = 0 THEN <<>> ELSE <<n % 256>> \o Limbs(n \div 256)

\* mag * m + carry, for small m and carry
RECURSIVE MulAdd(_, _, _)
MulAdd(mag, m, carry) ==
    IF mag = <<>> THEN Limbs(carry)
    ELSE Bind(Head(mag) * m + carry, LAMBDA t :
         Bind(MulAdd(Tail(mag), m, t \div 256), LAMBDA rest :
              IF rest = <<>> /\ t % 256 = 0 THEN <<>> ELSE <<t % 256>> \o rest))

RECURSIVE BitLen(_)
BitLen(n) == IF n = 0 THEN 0 ELSE 1 + BitLen(n \div 2)

\* int.bit_length() of a magnitude
bit_length(mag) == IF mag = <<>> THEN 0
                   ELSE 8 * (Len(mag) - 1) + BitLen(mag[Len(mag)])

\* the value of a small non-negative integer
Int2Num(n) == [neg |-> FALSE, mag |-> Limbs(n)]

\* the integer of a magnitude known to be small
RECURSIVE Mag2Int(_)
Mag2Int(mag) == IF mag = <<>> THEN 0 ELSE Head(mag) + 256 * Mag2Int(Tail(mag))

\* value of a digit character, -1 when it is not a digit of any base
DigitVal(c) ==
    LET lo == IndexOf("0123456789abcdef", c, 1)
        up == IndexOf("0123456789ABCDEF", c, 1)
    IN  IF lo > 0 THEN lo - 1 ELSE IF up > 0 THEN up - 1 ELSE -1

\* str.strip() for blanks
RECURSIVE lstrip(_)
lstrip(s) == IF s # "" /\ Ch(s, 1) = " " THEN lstrip(SubSeq(s, 2, Len(s))) ELSE s

RECURSIVE rstrip(_)
rstrip(s) == IF s # "" /\ Ch(s, Len(s)) = " " THEN rstrip(SubSeq(s, 1, Len(s) - 1)) ELSE s

strip(s) == rstrip(lstrip(s))

\* digits of one base with single underscores between them (an underscore
\* may also follow the base prefix): [ok, mag]
RECURSIVE ParseDigits(_, _, _, _, _)
ParseDigits(s, i, base, acc, prev_digit) ==
    IF i > Len(s) THEN [ok |-> prev_digit, mag |-> acc]
    ELSE LET c == Ch(s, i)
             v == DigitVal(c)
         IN  IF c = "_"
             THEN IF i < Len(s) /\ Ch(s, i + 1) # "_" /\ (prev_digit \/ (i = 1 /\ base # 10))
                  THEN ParseDigits(s, i + 1, base, acc, FALSE)
                  ELSE [ok |-> FALSE, mag |-> <<>>]
             ELSE IF v < 0 \/ v >= base
             THEN [ok |-> FALSE, mag |-> <<>>]
             ELSE Bind(MulAdd(acc, base, v), LAMBDA sum :
                       ParseDigits(s, i + 1, base, sum, TRUE))

\* a literal without its sign
Unsigned(s) == IF s # "" /\ Ch(s, 1) \in {"+", "-"} THEN SubSeq(s, 2, Len(s)) ELSE s

\* int(text, 0): [ok, val]; ok FALSE stands for ValueError
int0(text) ==
    Bind(strip(text), LAMBDA s :
    Bind(Unsigned(s), LAMBDA body :
    LET neg    == s # "" /\ Ch(s, 1) = "-"
        pre    == SubSeq(body, 1, Min(2, Len(body)))
        base   == IF pre \in {"0x", "0X"} THEN 16
                  ELSE IF pre \in {"0o", "0O"} THEN 8
                  ELSE IF pre \in {"0b", "0B"} THEN 2
                  ELSE 10
    IN  Bind(IF base = 10 THEN body ELSE SubSeq(body, 3, Len(body)), LAMBDA digits :
        Bind(IF digits = "" THEN [ok |-> FALSE, mag |-> <<>>]
             ELSE ParseDigits(digits, 1, base, <<>>, FALSE), LAMBDA parsed :
        \* a decimal literal with a leading zero must be zero
        LET lead0 == base = 10 /\ Ch(body, 1) = "0" /\ parsed.ok /\ parsed.mag # <<>>
        IN  IF parsed.ok /\ ~lead0
            THEN [ok |-> TRUE,
                  val |-> [neg |-> neg /\ parsed.mag # <<>>, mag |-> parsed.mag]]
            ELSE [ok |-> FALSE, val |-> Zero]))))

\* str.upper() of one character, for the unit letters
upper(c) == IF c = "k" THEN "K" ELSE IF c = "m" THEN "M" ELSE IF c = "g" THEN "G" ELSE c

\* UNITS.get(c): the power of 1024 of a unit suffix, 0 when c is no unit
UNITS(c) == IF c = "K" THEN 1 ELSE IF c = "M" THEN 2 ELSE IF c = "G" THEN 3 ELSE 0

RECURSIVE Times1024(_, _)
Times1024(mag, k) ==
    IF k = 0 THEN mag
    ELSE Bind(MulAdd(mag, 1024, 0), LAMBDA product : Times1024(product, k - 1))

\* '%d' % n for a small n >= 0
RECURSIVE Dec(_)
Dec(n) == IF n < 10 THEN Ch("0123456789", n + 1)
          ELSE Dec(n \div 10) \o Ch("0123456789", (n % 10) + 1)

NoError == [type |-> "none", kind |-> "none", msg |-> ""]

PyswdException(kind, msg) == [type |-> "PyswdException", kind |-> kind, msg |-> msg]

\* ret >= pow(2, max_bits)
too_big_inclusive(val, max_bits) == ~val.neg /\ bit_length(val.mag) >= max_bits

too_big(val, max_bits) == ~val.neg /\ bit_length(val.mag) > max_bits

\* convert_numeric(num, max_bits): [exc, val]
convert_numeric(num, max_bits) ==
    IF num = "" THEN [exc |-> NoError, val |-> Zero]
    ELSE Bind(UNITS(upper(Ch(num, Len(num)))), LAMBDA multi :
         Bind(IF multi # 0 THEN int0(SubSeq(num, 1, Len(num) - 1)) ELSE int0(num),
              LAMBDA lit :
         Bind(Times1024(lit.val.mag, multi), LAMBDA mag :
         Bind([neg |-> lit.val.neg /\ mag # <<>>, mag |-> mag], LAMBDA ret :
              IF ~lit.ok
              THEN [exc |-> PyswdException("FormatError",
                                "number \"" \o num \o "\" has wrong format"),
                    val |-> Zero]
              ELSE IF too_big(ret, max_bits)
              THEN [exc |-> PyswdException("RangeError",
                                num \o " is too big, number must fit into "
                                    \o Dec(max_bits) \o " bits"),
                    val |-> Zero]
              ELSE [exc |-> NoError, val |-> ret]))))

\* num % align is not zero, for align 2 or 4
Unaligned(val, align) == val.mag # <<>> /\ val.mag[1] % align # 0

\* test_alignment(num, param_name, align): the exception it raises
test_alignment(val, param_name, align) ==
    IF Unaligned(val, align)
    THEN PyswdException("AlignmentError",
             param_name \o " must be aligned to " \o Dec(align) \o " Bytes")
    ELSE NoError

(***************************************************************************)
(* The debug core behind self._swd and self._cortexm (swd.Swd and          *)
(* swd.CortexM): memory is a store of bytes, the core is halted or         *)
(* running, and every call may fail with an ST-Link error.                 *)
(***************************************************************************)
REGISTERS == <<"R0", "R1", "R2", "R3", "R4", "R5", "R6", "R7", "R8", "R9",
               "R10", "R11", "R12", "SP", "LR", "PC", "PSR", "MSP", "PSP">>

\* arguments and return value of a call, as records with every field
NoArgs == [name |-> "", addr |-> Zero, size |-> Zero, val |-> Zero, bytes |-> <<>>]

NoRet  == [flag |-> FALSE, val |-> Zero, bytes |-> <<>>, regs |-> <<>>]

\* address arithmetic: mag + k for a small k
Add(mag, k) == MulAdd(mag, 1, k)

\* the magnitude of a little-endian byte list
RECURSIVE from_bytes(_)
from_bytes(bytes) ==
    IF bytes = <<>> THEN <<>>
    ELSE IF bytes[Len(bytes)] = 0 THEN from_bytes(SubSeq(bytes, 1, Len(bytes) - 1))
    ELSE bytes

\* the n-byte little-endian list of a magnitude that fits
to_bytes(mag, n) == [i \in 1..n |-> IF i <= Len(mag) THEN mag[i] ELSE 0]

\* the integer of a value known to be small
SmallInt(val) == IF val.neg THEN 0 - Mag2Int(val.mag) ELSE Mag2Int(val.mag)

MemByte(m, a) == IF a \in DOMAIN m THEN m[a] ELSE 0

ReadBytes(m, addr, n) == [i \in 1..n |-> MemByte(m, Add(addr, i - 1))]

WriteBytes(m, addr, bytes) ==
    LET new == { Add(addr, i - 1) : i \in 1..Len(bytes) }
    IN  IF new = {} THEN m
        ELSE [a \in (DOMAIN m) \cup new |->
                IF a \in new
                THEN bytes[CHOOSE i \in 1..Len(bytes) : Add(addr, i - 1) = a]
                ELSE m[a]]

IsByteList(bytes) == \A i \in 1..Len(bytes) : bytes[i] \in 0..255

IsWord(val) == ~val.neg /\ bit_length(val.mag) <= 32

IsRegister(name) == \E i \in 1..Len(REGISTERS) : REGISTERS[i] = name

\* the calls the core can carry out; any other is refused with an error
CoreAccepts(fn, args) ==
    CASE fn = "read_mem"  -> IsWord(args.addr) /\ IsWord(args.size)
      [] fn = "write_mem" -> IsWord(args.addr) /\ IsByteList(args.bytes)
      [] fn = "get_mem32" -> IsWord(args.addr)
      [] fn = "set_mem32" -> IsWord(args.addr) /\ IsWord(args.val)
      [] fn = "fill_mem"  -> IsWord(args.addr) /\ IsWord(args.size)
                             /\ IsByteList(args.bytes) /\ args.bytes # <<>>
      [] fn = "get_reg"   -> IsRegister(args.name)
      [] fn = "set_reg"   -> IsRegister(args.name) /\ IsWord(args.val)
      [] OTHER            -> TRUE

\* how a call can end: "ok" or the type of the exception it raises
CoreOutcomes(fn, args) ==
    IF fn = "time.sleep" THEN {"ok"}
    ELSE {"StlinkException", "StlinkComException"} \cup
         (IF CoreAccepts(fn, args) THEN {"ok"} ELSE {})

\* the value a successful call returns
CoreReturn(fn, args) ==
    CASE fn = "is_halted"   -> [NoRet EXCEPT !.flag = core_halted]
      [] fn = "read_mem"    -> [NoRet EXCEPT !.bytes =
                                   ReadBytes(mem, args.addr.mag, SmallInt(args.size))]
      [] fn = "get_mem32"   -> [NoRet EXCEPT !.val =
                                   [neg |-> FALSE,
                                    mag |-> from_bytes(ReadBytes(mem, args.addr.mag, 4))]]
      [] fn = "get_reg"     -> [NoRet EXCEPT !.val = core_regs[args.name]]
      [] fn = "get_reg_all" -> [NoRet EXCEPT !.regs =
                                   [i \in 1..Len(REGISTERS) |->
                                       [name |-> REGISTERS[i], val |-> core_regs[REGISTERS[i]]]]]
      [] OTHER              -> NoRet

\* the memory a successful call leaves
CoreMem(fn, args) ==
    CASE fn = "write_mem" -> WriteBytes(mem, args.addr.mag, args.bytes)
      [] fn = "set_mem32" -> WriteBytes(mem, args.addr.mag, to_bytes(args.val.mag, 4))
      [] fn = "fill_mem"  -> WriteBytes(mem, args.addr.mag,
                                 [i \in 1..SmallInt(args.size) |->
                                     args.bytes[((i - 1) % Len(args.bytes)) + 1]])
      [] OTHER            -> mem

\* the run state a successful call leaves
CoreHalted(fn) ==
    CASE fn \in {"halt", "reset_halt", "step"} -> TRUE
      [] fn \in {"run", "nodebug", "reset"}    -> FALSE
      [] OTHER                                 -> core_halted

\* the registers a successful call leaves
CoreRegs(fn, args) ==
    IF fn = "set_reg" THEN [core_regs EXCEPT ![args.name] = args.val] ELSE core_regs

(***************************************************************************)
(* swd/_app.py: the action handlers.  A handler is given the values its    *)
(* calls have returned so far and answers with what it does next: a call,  *)
(* an exception or its return, together with what it printed before that.  *)
(***************************************************************************)
Call(fn, args, out) == [op |-> "call", fn |-> fn, args |-> args, exc |-> NoError, out |-> out]

Fail(exc, out)      == [op |-> "raise", fn |-> "", args |-> NoArgs, exc |-> exc, out |-> out]

Done(out)           == [op |-> "return", fn |-> "", args |-> NoArgs, exc |-> NoError, out |-> out]

ArityError(msg) == PyswdException("ArityError", msg)

OverflowError == [type |-> "OverflowError", kind |-> "none",
                  msg |-> "can't convert negative int to unsigned"]

\* one call, then return
CallOnce(fn, args, rets) == IF rets = <<>> THEN Call(fn, args, <<>>) ELSE Done(<<>>)

\* action_halt
action_halt(params, rets) == CallOnce("halt", NoArgs, rets)

\* action_reset
action_reset(params, rets) ==
    IF params = <<>> THEN CallOnce("reset", NoArgs, rets)
    ELSE IF params[1] = "halt" THEN CallOnce("reset_halt", NoArgs, rets)
    ELSE Fail(PyswdException("ParameterError", "Wrong parameter"), <<>>)

\* action_run
action_run(params, rets) ==
    IF params = <<>> THEN CallOnce("run", NoArgs, rets)
    ELSE IF params[1] = "nodebug" THEN CallOnce("nodebug", NoArgs, rets)
    ELSE Fail(PyswdException("ParameterError", "Wrong parameter"), <<>>)

\* k < val, for a small k: the test of range(val)
Below(k, val) == ~val.neg /\ (bit_length(val.mag) > 16 \/ k < Mag2Int(val.mag))

\* action_step
action_step(params, rets) ==
    IF params = <<>> THEN CallOnce("step", NoArgs, rets)
    ELSE Bind(convert_numeric(params[1], 32), LAMBDA n :
              IF n.exc # NoError THEN Fail(n.exc, <<>>)
              ELSE IF Below(Len(rets), n.val) THEN Call("step", NoArgs, <<>>)
              ELSE Done(<<>>))

IsDigits(s) == s # "" /\ \A i \in 1..Len(s) : DigitVal(Ch(s, i)) \in 0..9

AllZeros(s) == \A i \in 1..Len(s) : Ch(s, i) = "0"

lower_inf_nan(s) ==
    IF s \in {"inf", "INF", "Inf", "infinity", "Infinity", "INFINITY"} THEN "inf"
    ELSE IF s \in {"nan", "NaN", "NAN"} THEN "nan"
    ELSE s

\* position of the exponent letter of a float literal, 0 when absent
ExpAt(s) == LET e == IndexOf(s, "e", 1) IN IF e # 0 THEN e ELSE IndexOf(s, "E", 1)

\* float(text) as time.sleep sees it: "invalid" (float raises ValueError),
\* "nan", "inf", "negative" or "ok"
float_kind(text) ==
    Bind(strip(text), LAMBDA s :
    Bind(Unsigned(s), LAMBDA body :
    Bind(ExpAt(body), LAMBDA e :
    Bind(IF e = 0 THEN body ELSE SubSeq(body, 1, e - 1), LAMBDA mant :
    Bind(IndexOf(mant, ".", 1), LAMBDA dot :
    Bind(IF dot = 0 THEN mant ELSE SubSeq(mant, 1, dot - 1), LAMBDA whole :
    Bind(IF dot = 0 THEN "" ELSE SubSeq(mant, dot + 1, Len(mant)), LAMBDA frac :
    LET neg    == s # "" /\ Ch(s, 1) = "-"
        word   == lower_inf_nan(body)
        expo   == IF e = 0 THEN "0" ELSE Unsigned(SubSeq(body, e + 1, Len(body)))
        valid  == /\ whole \o frac # ""
                  /\ whole = "" \/ IsDigits(whole)
                  /\ frac = "" \/ IsDigits(frac)
                  /\ IsDigits(expo)
    IN  IF word = "nan" THEN "nan"
        ELSE IF word = "inf" THEN "inf"
        ELSE IF ~valid THEN "invalid"
        ELSE IF neg /\ ~AllZeros(whole \o frac) THEN "negative"
        ELSE "ok")))))))

\* action_sleep
action_sleep(params, rets) ==
    IF params = <<>> THEN CallOnce("time.sleep", [NoArgs EXCEPT !.name = "1"], rets)
    ELSE IF Len(params) > 1 THEN Fail(ArityError("too many parameters"), <<>>)
    ELSE Bind(float_kind(params[1]), LAMBDA kind :
              IF kind \in {"invalid", "nan", "negative"}
              THEN Fail(PyswdException("FormatError",
                            "wrong float value: " \o params[1]), <<>>)
              ELSE IF kind = "inf"
              THEN Fail([type |-> "OverflowError", kind |-> "none",
                         msg |-> "timestamp out of range for platform time_t"], <<>>)
              ELSE CallOnce("time.sleep", [NoArgs EXCEPT !.name = params[1]], rets))

(***************************************************************************)
(* swd/_app.py: formatting of dumps.                                       *)
(***************************************************************************)
HexLowerDigit(n) == Ch("0123456789abcdef", n + 1)

\* '%x' % n for a magnitude: its digits, most significant byte first
HexDigits(mag) ==
    IF mag = <<>> THEN "0"
    ELSE LET RECURSIVE Bytes(_)
             Bytes(i) == IF i = 0 THEN ""
                         ELSE HexLowerDigit(mag[i] \div 16)
                              \o HexLowerDigit(mag[i] % 16) \o Bytes(i - 1)
         IN  Bind(Bytes(Len(mag)), LAMBDA all :
                  IF Ch(all, 1) = "0" THEN SubSeq(all, 2, Len(all)) ELSE all)

RECURSIVE zfill(_, _)
zfill(s, n) == IF Len(s) >= n THEN s ELSE zfill("0" \o s, n)

RECURSIVE ljust(_, _)
ljust(s, n) == IF Len(s) >= n THEN s ELSE ljust(s \o " ", n)

\* '%0<n>x' % val
FmtHex(val, n) ==
    Bind(HexDigits(val.mag), LAMBDA digits :
         IF val.neg THEN "-" \o zfill(digits, n - 1) ELSE zfill(digits, n))

\* chunks(data, chunk_size)
RECURSIVE chunks(_, _)
chunks(bytes, chunk_size) ==
    IF bytes = <<>> THEN <<>>
    ELSE <<SubSeq(bytes, 1, Min(chunk_size, Len(bytes)))>>
         \o chunks(SubSeq(bytes, chunk_size + 1, Len(bytes)), chunk_size)

RECURSIVE join(_, _)
join(sep, parts) ==
    IF parts = <<>> THEN ""
    ELSE IF Len(parts) = 1 THEN parts[1]
    ELSE parts[1] \o sep \o join(sep, Tail(parts))

\* the hex column of one line, for units of width bytes
hex_line(chunk, width) ==
    Bind(chunks(chunk, width), LAMBDA parts :
    Bind([i \in 1..Len(parts) |->
             FmtHex([neg |-> FALSE, mag |-> from_bytes(parts[i])], 2 * width)],
         LAMBDA texts :
    Bind(join(" ", texts), LAMBDA line :
         ljust(line, (16 \div width) * (2 * width + 1) - 1))))

hex_line8(chunk)  == hex_line(chunk, 1)

hex_line16(chunk) == hex_line(chunk, 2)

hex_line32(chunk) == hex_line(chunk, 4)

\* chr(d) for 32 <= d < 127; the grave accent (96) has no TLA+ string and
\* is shown as an apostrophe
Printable ==
    " !\"#$%&'()*+,-./0123456789:;<=>?@ABCDEFGHIJKLMNOPQRSTUVWXYZ[\\]^_'abcdefghijklmnopqrstuvwxyz{|}~"

\* ascii_line(chunk)
RECURSIVE ascii_line(_)
ascii_line(chunk) ==
    IF chunk = <<>> THEN ""
    ELSE LET d == Head(chunk)
         IN  (IF d >= 32 /\ d < 127 THEN Ch(Printable, d - 31) ELSE ".")
             \o ascii_line(Tail(chunk))

\* addr % 0x1000 == 0
PageStart(mag) == \/ mag = <<>>
                  \/ mag[1] = 0 /\ (Len(mag) < 2 \/ mag[2] % 16 = 0)

\* after the loop: if same_chunk or verbose > 1: print('%08x' % addr)
print_end_verbose_only(addr, same_chunk, verb) ==
    IF verb > 1 THEN <<FmtHex([neg |-> FALSE, mag |-> addr], 8)>> ELSE <<>>

print_end(addr, same_chunk, verb) ==
    IF same_chunk \/ verb > 1 THEN <<FmtHex([neg |-> FALSE, mag |-> addr], 8)>> ELSE <<>>

\* the loop of print_buffer over the remaining chunks
RECURSIVE print_chunks(_, _, _, _, _, _, _)
print_chunks(addr, rest, width, verb, tty, prev_chunk, same_chunk) ==
    IF rest = <<>>
    THEN print_end(addr, same_chunk, verb)
    ELSE Bind(Head(rest), LAMBDA chunk :
         Bind(Tail(rest), LAMBDA more :
         Bind(Add(addr, Len(chunk)), LAMBDA next :
             IF verb > 0 \/ prev_chunk # chunk
             THEN <<FmtHex([neg |-> FALSE, mag |-> addr], 8) \o "  "
                    \o hex_line(chunk, width) \o "  " \o ascii_line(chunk)>>
                  \o print_chunks(next, more, width, verb, tty, chunk, FALSE)
             ELSE IF ~same_chunk
             THEN <<"*">>
                  \o print_chunks(next, more, width, verb, tty, prev_chunk, TRUE)
             ELSE IF tty /\ PageStart(addr)
             THEN <<FmtHex([neg |-> FALSE, mag |-> addr], 8) \o "\r">>
                  \o print_chunks(next, more, width, verb, tty, prev_chunk, same_chunk)
             ELSE print_chunks(next, more, width, verb, tty, prev_chunk, same_chunk))))

\* print_buffer(addr, data, hex_line, verbose): what it prints
print_buffer(addr, bytes, width, verb, tty) ==
    Bind(chunks(bytes, 16), LAMBDA lines :
         print_chunks(addr.mag, lines, width, verb, tty, <<>>, FALSE))

(***************************************************************************)
(* swd/_app.py: the memory and register handlers.                          *)
(***************************************************************************)
NoParameters == ArityError("no parameters")

TooManyParameters == ArityError("too many parameters")

\* the dump of size bytes: read_mem, then print_buffer
DumpArea(addr, size_text, width, rets) ==
    Bind(convert_numeric(size_text, 32), LAMBDA size :
    Bind(IF width = 1 THEN NoError ELSE test_alignment(size.val, "Size", width),
         LAMBDA al :
         IF size.exc # NoError THEN Fail(size.exc, <<>>)
         ELSE IF al # NoError THEN Fail(al, <<>>)
         ELSE IF rets = <<>>
         THEN Call("read_mem", [NoArgs EXCEPT !.addr = addr, !.size = size.val], <<>>)
         ELSE Done(print_buffer(addr, rets[1].bytes, width, verbose, isatty))))

\* the dump of one unit read with read_mem
DumpUnit(addr, width, rets) ==
    IF rets = <<>>
    THEN Call("read_mem", [NoArgs EXCEPT !.addr = addr, !.size = Int2Num(width)], <<>>)
    ELSE Done(<<FmtHex(addr, 8) \o ": "
                \o FmtHex([neg |-> FALSE, mag |-> from_bytes(rets[1].bytes)], 2 * width)>>)

\* action_dump32
action_dump32(params, rets) ==
    IF params = <<>> THEN Fail(NoParameters, <<>>)
    ELSE Bind(convert_numeric(params[1], 32), LAMBDA addr :
              IF addr.exc # NoError THEN Fail(addr.exc, <<>>)
              ELSE IF Len(params) = 1
              THEN IF Unaligned(addr.val, 4)
                   THEN DumpUnit(addr.val, 4, rets)
                   ELSE IF rets = <<>>
                   THEN Call("get_mem32", [NoArgs EXCEPT !.addr = addr.val], <<>>)
                   ELSE Done(<<FmtHex(addr.val, 8) \o ": " \o FmtHex(rets[1].val, 8)>>)
              ELSE IF Len(params) = 2
              THEN DumpArea(addr.val, params[2], 4, rets)
              ELSE Fail(TooManyParameters, <<>>))

\* action_dump16
action_dump16(params, rets) ==
    IF params = <<>> THEN Fail(NoParameters, <<>>)
    ELSE Bind(convert_numeric(params[1], 32), LAMBDA addr :
              IF addr.exc # NoError THEN Fail(addr.exc, <<>>)
              ELSE IF Len(params) = 1 THEN DumpUnit(addr.val, 2, rets)
              ELSE IF Len(params) = 2 THEN DumpArea(addr.val, params[2], 2, rets)
              ELSE Fail(TooManyParameters, <<>>))

\* action_dump8
action_dump8(params, rets) ==
    IF params = <<>> THEN Fail(NoParameters, <<>>)
    ELSE Bind(convert_numeric(params[1], 32), LAMBDA addr :
              IF addr.exc # NoError THEN Fail(addr.exc, <<>>)
              ELSE IF Len(params) = 1 THEN DumpUnit(addr.val, 1, rets)
              ELSE IF Len(params) = 2 THEN DumpArea(addr.val, params[2], 1, rets)
              ELSE Fail(TooManyParameters, <<>>))

\* action_dump
action_dump(params, rets) ==
    IF params = <<>> THEN Fail(NoParameters, <<>>)
    ELSE IF Len(params) = 1 THEN action_dump32(params, rets)
    ELSE IF Len(params) = 2 THEN action_dump8(params, rets)
    ELSE Fail(TooManyParameters, <<>>)

\* the data parameters from position i on, each converted at max_bits and
\* laid out little-endian in nbytes bytes: [exc, bytes]
RECURSIVE PackWords(_, _, _, _)
PackWords(params, i, max_bits, nbytes) ==
    IF i > Len(params) THEN [exc |-> NoError, bytes |-> <<>>]
    ELSE Bind(convert_numeric(params[i], max_bits), LAMBDA c :
         Bind(PackWords(params, i + 1, max_bits, nbytes), LAMBDA rest :
              IF c.exc # NoError THEN [exc |-> c.exc, bytes |-> <<>>]
              ELSE IF c.val.neg THEN [exc |-> OverflowError, bytes |-> <<>>]
              ELSE IF rest.exc # NoError THEN rest
              ELSE [exc |-> NoError, bytes |-> to_bytes(c.val.mag, nbytes) \o rest.bytes]))

\* [convert_numeric(i, 8) for i in params[i:]]: [exc, bytes]
RECURSIVE PackBytes(_, _)
PackBytes(params, i) ==
    IF i > Len(params) THEN [exc |-> NoError, bytes |-> <<>>]
    ELSE Bind(convert_numeric(params[i], 8), LAMBDA c :
         Bind(PackBytes(params, i + 1), LAMBDA rest :
              IF c.exc # NoError THEN [exc |-> c.exc, bytes |-> <<>>]
              ELSE IF rest.exc # NoError THEN rest
              ELSE [exc |-> NoError, bytes |-> <<SmallInt(c.val)>> \o rest.bytes]))

AtLeast2 == ArityError("require at least 2 parameters")

WriteMem(addr, data_bytes, rets) ==
    Bind(data_bytes, LAMBDA packed :
         IF packed.exc # NoError THEN Fail(packed.exc, <<>>)
         ELSE CallOnce("write_mem",
                  [NoArgs EXCEPT !.addr = addr, !.bytes = packed.bytes], rets))

\* action_set32
action_set32_addr_as_value(params, rets) ==
    IF Len(params) < 2 THEN Fail(AtLeast2, <<>>)
    ELSE Bind(convert_numeric(params[1], 32), LAMBDA addr :
              IF addr.exc # NoError THEN Fail(addr.exc, <<>>)
              ELSE IF ~Unaligned(addr.val, 4) /\ Len(params) = 2
              THEN Bind(convert_numeric(params[2], 32), LAMBDA v :
                        IF v.exc # NoError THEN Fail(v.exc, <<>>)
                        ELSE CallOnce("set_mem32",
                                 [NoArgs EXCEPT !.addr = addr.val, !.val = addr.val], rets))
              ELSE WriteMem(addr.val, PackWords(params, 2, 32, 4), rets))

action_set32(params, rets) ==
    IF Len(params) < 2 THEN Fail(AtLeast2, <<>>)
    ELSE Bind(convert_numeric(params[1], 32), LAMBDA addr :
              IF addr.exc # NoError THEN Fail(addr.exc, <<>>)
              ELSE IF ~Unaligned(addr.val, 4) /\ Len(params) = 2
              THEN Bind(convert_numeric(params[2], 32), LAMBDA v :
                        IF v.exc # NoError THEN Fail(v.exc, <<>>)
                        ELSE CallOnce("set_mem32",
                                 [NoArgs EXCEPT !.addr = addr.val, !.val = v.val], rets))
              ELSE WriteMem(addr.val, PackWords(params, 2, 32, 4), rets))

\* action_set16
action_set16_as_words(params, rets) ==
    IF Len(params) < 2 THEN Fail(AtLeast2, <<>>)
    ELSE Bind(convert_numeric(params[1], 32), LAMBDA addr :
              IF addr.exc # NoError THEN Fail(addr.exc, <<>>)
              ELSE WriteMem(addr.val, PackWords(params, 2, 32, 4), rets))

action_set16(params, rets) ==
    IF Len(params) < 2 THEN Fail(AtLeast2, <<>>)
    ELSE Bind(convert_numeric(params[1], 32), LAMBDA addr :
              IF addr.exc # NoError THEN Fail(addr.exc, <<>>)
              ELSE WriteMem(addr.val, PackWords(params, 2, 16, 2), rets))

\* action_set8
action_set8(params, rets) ==
    IF Len(params) < 2 THEN Fail(AtLeast2, <<>>)
    ELSE Bind(convert_numeric(params[1], 32), LAMBDA addr :
              IF addr.exc # NoError THEN Fail(addr.exc, <<>>)
              ELSE WriteMem(addr.val, PackBytes(params, 2), rets))

\* action_set
action_set(params, rets) ==
    IF params = <<>> THEN Fail(NoParameters, <<>>)
    ELSE IF Len(params) = 2 THEN action_set32(params, rets)
    ELSE IF Len(params) > 2 THEN action_set8(params, rets)
    ELSE Fail(TooManyParameters, <<>>)

\* action_fill8
action_fill8_pattern_last(params, rets) ==
    IF Len(params) < 3 THEN Fail(ArityError("require at least 3 parameters"), <<>>)
    ELSE Bind(convert_numeric(params[1], 32), LAMBDA addr :
         Bind(convert_numeric(params[2], 32), LAMBDA size :
         Bind(PackBytes(params, 3), LAMBDA pattern :
              IF addr.exc # NoError THEN Fail(addr.exc, <<>>)
              ELSE IF size.exc # NoError THEN Fail(size.exc, <<>>)
              ELSE IF rets = <<>>
              THEN Call("fill_mem",
                       [NoArgs EXCEPT !.addr = addr.val, !.size = size.val,
                                      !.bytes = <<0>>], <<>>)
              ELSE IF pattern.exc # NoError THEN Fail(pattern.exc, <<>>)
              ELSE Done(<<>>))))

action_fill8(params, rets) ==
    IF Len(params) < 3 THEN Fail(ArityError("require at least 3 parameters"), <<>>)
    ELSE Bind(convert_numeric(params[1], 32), LAMBDA addr :
         Bind(convert_numeric(params[2], 32), LAMBDA size :
         Bind(PackBytes(params, 3), LAMBDA pattern :
              IF addr.exc # NoError THEN Fail(addr.exc, <<>>)
              ELSE IF size.exc # NoError THEN Fail(size.exc, <<>>)
              ELSE IF pattern.exc # NoError THEN Fail(pattern.exc, <<>>)
              ELSE CallOnce("fill_mem",
                       [NoArgs EXCEPT !.addr = addr.val, !.size = size.val,
                                      !.bytes = pattern.bytes], rets))))

\* the register access of action_reg, given the calls it has made so far
\* (done) and whether the engine is to resume the core afterwards
RegAccess(params, done, resume) ==
    LET finish(out) == IF resume THEN Call("run", NoArgs, out) ELSE Done(out)
    IN  IF Len(params) = 1
        THEN IF done = <<>>
             THEN IF params[1] = "all" THEN Call("get_reg_all", NoArgs, <<>>)
                  ELSE Call("get_reg", [NoArgs EXCEPT !.name = params[1]], <<>>)
             ELSE IF Len(done) = 1
             THEN finish(IF params[1] = "all"
                         THEN [i \in 1..Len(done[1].regs) |->
                                  done[1].regs[i].name \o ": " \o FmtHex(done[1].regs[i].val, 8)]
                         ELSE <<params[1] \o ": " \o FmtHex(done[1].val, 8)>>)
             ELSE Done(<<>>)
        ELSE IF Len(params) = 2
        THEN Bind(convert_numeric(params[2], 32), LAMBDA val :
                  IF val.exc # NoError THEN Fail(val.exc, <<>>)
                  ELSE IF done = <<>>
                  THEN Call("set_reg",
                           [NoArgs EXCEPT !.name = params[1], !.val = val.val], <<>>)
                  ELSE IF Len(done) = 1 THEN finish(<<>>)
                  ELSE Done(<<>>))
        ELSE Fail(TooManyParameters, <<>>)

\* action_reg
action_reg_resume_always(params, rets) ==
    IF params = <<>> THEN Fail(NoParameters, <<>>)
    ELSE IF rets = <<>> THEN Call("is_halted", NoArgs, <<>>)
    ELSE LET halted == rets[1].flag
         IN  IF ~halted /\ Len(rets) = 1 THEN Call("halt", NoArgs, <<>>)
             ELSE RegAccess(params,
                            SubSeq(rets, IF halted THEN 2 ELSE 3, Len(rets)),
                            Len(rets) < 4)

action_reg(params, rets) ==
    IF params = <<>> THEN Fail(NoParameters, <<>>)
    ELSE IF rets = <<>> THEN Call("is_halted", NoArgs, <<>>)
    ELSE LET halted == rets[1].flag
         IN  IF ~halted /\ Len(rets) = 1 THEN Call("halt", NoArgs, <<>>)
             ELSE RegAccess(params,
                            SubSeq(rets, IF halted THEN 2 ELSE 3, Len(rets)),
                            ~halted)

(***************************************************************************)
(* swd/_app.py: Application.process_actions.                               *)
(***************************************************************************)
\* action.split(":")
RECURSIVE split(_, _)
split(text, sep) ==
    Bind(IndexOf(text, sep, 1), LAMBDA i :
         IF i = 0 THEN <<text>>
         ELSE <<SubSeq(text, 1, i - 1)>> \o split(SubSeq(text, i + 1, Len(text)), sep))

\* the action_<name> methods of Application
HandlerNames == {"dump32", "dump16", "dump8", "dump", "set32", "set16", "set8", "set",
                 "fill8", "reg", "reset", "run", "step", "halt", "sleep"}

\* hasattr(self, "action_" + name)
hasattr_prefix(name) == \E h \in HandlerNames : startswith(name, h)

hasattr(name) == name \in HandlerNames

\* getattr(self, "action_" + name)(params), resumed after rets
Handler(name, params, rets) ==
    CASE name = "dump32" -> action_dump32(params, rets)
      [] name = "dump16" -> action_dump16(params, rets)
      [] name = "dump8"  -> action_dump8(params, rets)
      [] name = "dump"   -> action_dump(params, rets)
      [] name = "set32"  -> action_set32(params, rets)
      [] name = "set16"  -> action_set16(params, rets)
      [] name = "set8"   -> action_set8(params, rets)
      [] name = "set"    -> action_set(params, rets)
      [] name = "fill8"  -> action_fill8(params, rets)
      [] name = "reg"    -> action_reg(params, rets)
      [] name = "reset"  -> action_reset(params, rets)
      [] name = "run"    -> action_run(params, rets)
      [] name = "step"   -> action_step(params, rets)
      [] name = "halt"   -> action_halt(params, rets)
      [] name = "sleep"  -> action_sleep(params, rets)
      [] OTHER           -> Fail([type |-> "AttributeError", kind |-> "none",
                                  msg |-> "action_" \o name], <<>>)

\* except PyswdException as err: raise PyswdException("%s: %s" % (name, err));
\* any other exception passes through
reraise_bare(name, exc) == exc

reraise(name, exc) ==
    IF exc.type = "PyswdException"
    THEN PyswdException(exc.kind, name \o ": " \o exc.msg)
    ELSE exc

\* an exception leaves the for loop: nothing of the batch runs after it
on_exception_continue(i) == [pc |-> "loop", i |-> i + 1]

on_exception(i) == [pc |-> "raised", i |-> i]

\* for action in self._actions: the entry after entry i
next_action_again(i) == i

next_action(i) == i + 1

HandlerEvent(i, name, params) ==
    [ev |-> "handler", entry |-> i, fn |-> name, params |-> params,
     args |-> NoArgs, result |-> "ok"]

CallEvent(i, fn, args, result) ==
    [ev |-> "call", entry |-> i, fn |-> fn, params |-> <<>>,
     args |-> args, result |-> result]

coreVars == <<core_halted, core_regs, mem>>

\* an exception exc raised while entry act_i is processed
Abort(exc, wrapped) ==
    /\ app_pc' = on_exception(act_i).pc
    /\ act_i' = on_exception(act_i).i
    /\ h_exc' = exc
    /\ app_err' = wrapped
    /\ fail_i' = IF fail_i = 0 THEN act_i ELSE fail_i

\* the head of the loop: split the entry, look the handler up, invoke it
ProcessAction ==
    /\ app_pc = "loop"
    /\ act_i <= Len(actions)
    /\ \E action \in {actions[act_i]} : \E action_parts \in {split(action, ":")} :
           IF ~hasattr(action_parts[1])
           THEN /\ Abort(NoError,
                         PyswdException("UnknownAction",
                             "action '" \o action \o "' is not implemented"))
                /\ UNCHANGED <<h_name, h_params, h_rets, trace>>
           ELSE /\ app_pc' = "handler"
                /\ h_name' = action_parts[1]
                /\ h_params' = Tail(action_parts)
                /\ h_rets' = <<>>
                /\ trace' = Append(trace, HandlerEvent(act_i, action_parts[1],
                                                       Tail(action_parts)))
                /\ UNCHANGED <<act_i, h_exc, app_err, fail_i>>
    /\ UNCHANGED <<actions, verbose, isatty, stdout>>
    /\ UNCHANGED coreVars
    /\ UNCHANGED <<selVars, xferVars, fnVars>>

\* the loop is exhausted: process_actions returns
ProcessReturn ==
    /\ app_pc = "loop"
    /\ act_i > Len(actions)
    /\ app_pc' = "returned"
    /\ UNCHANGED <<actions, verbose, isatty, act_i, h_name, h_params, h_rets, trace,
                   stdout, h_exc, app_err, fail_i>>
    /\ UNCHANGED coreVars
    /\ UNCHANGED <<selVars, xferVars, fnVars>>

\* the running handler makes its next call into the debug core (or sleeps)
HandlerCall ==
    /\ app_pc = "handler"
    /\ \E eff \in {Handler(h_name, h_params, h_rets)} :
           /\ eff.op = "call"
           /\ stdout' = stdout \o eff.out
           /\ \E result \in CoreOutcomes(eff.fn, eff.args) :
                /\ trace' = Append(trace, CallEvent(act_i, eff.fn, eff.args, result))
                /\ IF result = "ok"
                   THEN /\ h_rets' = Append(h_rets, CoreReturn(eff.fn, eff.args))
                        /\ mem' = CoreMem(eff.fn, eff.args)
                        /\ core_halted' = CoreHalted(eff.fn)
                        /\ core_regs' = CoreRegs(eff.fn, eff.args)
                        /\ UNCHANGED <<app_pc, act_i, h_exc, app_err, fail_i>>
                   ELSE LET exc == [type |-> result, kind |-> "none", msg |-> eff.fn]
                        IN  /\ Abort(exc, reraise(h_name, exc))
                            /\ UNCHANGED <<h_rets, mem, core_halted, core_regs>>
    /\ UNCHANGED <<actions, verbose, isatty, h_name, h_params>>
    /\ UNCHANGED <<selVars, xferVars, fnVars>>

\* the running handler raises
HandlerRaise ==
    /\ app_pc = "handler"
    /\ \E eff \in {Handler(h_name, h_params, h_rets)} :
           /\ eff.op = "raise"
           /\ stdout' = stdout \o eff.out
           /\ Abort(eff.exc, reraise(h_name, eff.exc))
    /\ UNCHANGED <<actions, verbose, isatty, h_name, h_params, h_rets, trace>>
    /\ UNCHANGED coreVars
    /\ UNCHANGED <<selVars, xferVars, fnVars>>

\* the running handler returns: on to the next entry
HandlerReturn ==
    /\ app_pc = "handler"
    /\ \E eff \in {Handler(h_name, h_params, h_rets)} :
           /\ eff.op = "return"
           /\ stdout' = stdout \o eff.out
    /\ app_pc' = "loop"
    /\ act_i' = next_action(act_i)
    /\ UNCHANGED <<actions, verbose, isatty, h_name, h_params, h_rets, trace,
                   h_exc, app_err, fail_i>>
    /\ UNCHANGED coreVars
    /\ UNCHANGED <<selVars, xferVars, fnVars>>

(***************************************************************************)
(* States in which a part of the program is not running.                   *)
(***************************************************************************)
IdleApp ==
    /\ actions = <<>>
    /\ verbose = 0
    /\ isatty = FALSE
    /\ app_pc = "returned"
    /\ act_i = 1
    /\ h_name = ""
    /\ h_params = <<>>
    /\ h_rets = <<>>
    /\ trace = <<>>
    /\ stdout = <<>>
    /\ h_exc = NoError
    /\ app_err = NoError
    /\ fail_i = 0
    /\ core_halted = FALSE
    /\ core_regs = [r \in { REGISTERS[i] : i \in 1..Len(REGISTERS) } |-> Zero]
    /\ mem = <<>>

IdleXfer(cls, usb) ==
    /\ dev_cls = cls
    /\ dev_usb = usb
    /\ usb_finalized = 0
    /\ xfer_pc = "idle"
    /\ cmd_arg = <<>>
    /\ command = <<>>
    /\ data = [present |-> FALSE, bytes |-> <<>>]
    /\ rx_length = 0
    /\ io_log = <<>>
    /\ xfer_status = "none"
    /\ xfer_ret = [none |-> TRUE, bytes |-> <<>>]
    /\ xfer_exc = "none"
    /\ n_xfers = 0
    /\ base_deleted = FALSE

IdleFn ==
    /\ conv_pc = "idle"
    /\ conv_num = ""
    /\ conv_max_bits = 32
    /\ conv_ret = [exc |-> NoError, val |-> Zero]
    /\ pb_pc = "idle"
    /\ pb_addr = Zero
    /\ pb_data = <<>>
    /\ pb_width = 1

BoundSession(cls) ==
    /\ usb_backend = TRUE
    /\ attached = [[V2 |-> <<>>, V21 |-> <<>>] EXCEPT ![cls] = << <<171, 205, 17, 17>> >>]
    /\ serial_arg = ""
    /\ sel_pc = "done"
    /\ com_dev = [cls |-> cls, serial_number |-> <<171, 205, 17, 17>>]
    /\ sel_exc = NoExc

(***************************************************************************)
(* Inputs of the selection: what is on the bus and the -s argument.        *)
(***************************************************************************)
\* usb serial numbers whose hex forms are ABCD1111, ABCD2222, EF001111, and
\* one with a code point above 255 (hex form 1000F)
RawSerials == { <<171, 205, 17, 17>>, <<171, 205, 34, 34>>, <<239, 0, 17, 17>>,
                <<256, 15>> }

SerialArgs == { "", "1111", "ABCD", "ABCD1111", "2222", "EF", "abcd", "11",
                "ABCD11110", "0F", "D" }

RECURSIVE SeqsUpTo(_, _)
SeqsUpTo(S, n) ==
    IF n = 0 THEN { <<>> }
    ELSE LET shorter == SeqsUpTo(S, n - 1)
         IN  shorter \cup { Append(s, x) : s \in shorter, x \in S }

Buses == { [V2 |-> a, V21 |-> b] : a \in SeqsUpTo(RawSerials, MaxDevices),
                                   b \in SeqsUpTo(RawSerials, 1) }

InitSelect ==
    /\ usb_backend \in BOOLEAN
    /\ attached \in { b \in Buses : Len(b.V2) + Len(b.V21) <= MaxDevices }
    /\ serial_arg \in SerialArgs
    /\ sel_pc = "new"
    /\ com_dev = NoDev
    /\ sel_exc = NoExc
    /\ IdleXfer("None", "None")
    /\ IdleApp
    /\ IdleFn

NextSelect == StlinkCom_init

SpecSelect == InitSelect /\ [][NextSelect]_vars

(***************************************************************************)
(* Inputs of xfer.                                                         *)
(***************************************************************************)
\* commands of every length up to one over the capacity: all zero, or
\* counting up from 1
Commands == { [i \in 1..n |-> i * v] : n \in 0..(_STLINK_CMD_SIZE + 1), v \in {0, 1} }

Payloads == { [present |-> FALSE, bytes |-> <<>>],
              [present |-> TRUE,  bytes |-> <<>>],
              [present |-> TRUE,  bytes |-> <<222, 173>>] }

RxLengths == {0, 1, MaxRx}

InitXfer ==
    /\ \E cls \in {"V2", "V21"} : BoundSession(cls) /\ IdleXfer(cls, "open")
    /\ IdleApp
    /\ IdleFn

NextXfer ==
    \/ \E cmd \in Commands, d \in Payloads, rx \in RxLengths : XferCall(cmd, d, rx)
    \/ XferWriteCommand
    \/ XferWriteData
    \/ XferRead
    \/ BaseDel

SpecXfer == InitXfer /\ [][NextXfer]_vars

(***************************************************************************)
(* Inputs of process_actions: the batch.                                   *)
(***************************************************************************)
Catalogue ==
    { "halt", "run:nodebug", "reset:halt", "step:2", "sleep:0.5",
      "reg:R0", "reg:R1:0x10", "reg:R2:1:2",
      "dump32:0x20000000", "dump32:0x20000000:16", "dump16:0:3",
      "set32:0x20000000:0xdeadbeef", "set16:0x20000002:0x1234:zz",
      "set8:0x20000000:256", "fill8:0x20000000:4:0xaa", "set",
      "erase:0", "halted", "" }

\* the application about to run process_actions on one of the batches
StartApp(batches, verbosities, ttys) ==
    /\ BoundSession("V2")
    /\ IdleXfer("V2", "open")
    /\ actions \in batches
    /\ verbose \in verbosities
    /\ isatty \in ttys
    /\ app_pc = "loop"
    /\ act_i = 1
    /\ h_name = ""
    /\ h_params = <<>>
    /\ h_rets = <<>>
    /\ trace = <<>>
    /\ stdout = <<>>
    /\ h_exc = NoError
    /\ app_err = NoError
    /\ fail_i = 0
    /\ core_halted \in BOOLEAN
    /\ core_regs = [r \in { REGISTERS[i] : i \in 1..Len(REGISTERS) } |-> Zero]
    /\ mem = <<>>
    /\ IdleFn

\* dump an area, set its first word, dump the word: each batch with the
\* line its last dump is to print
EndToEnd ==
    { [batch |-> <<"dump32:0x20000000:16", "set32:0x20000000:0xdeadbeef",
                   "dump32:0x20000000">>,
       line  |-> "20000000: deadbeef"],
      [batch |-> <<"dump32:0x10:16", "set32:0x10:7", "dump32:0x10">>,
       line  |-> "00000010: 00000007"] }

\* the forms of the set actions that pass their checks
SetForms ==
    { "set32:0x20000000:0xdeadbeef", "set32:0x20000002:0xdeadbeef",
      "set32:0x20000000:1:0x100",
      "set16:0x20000000:0x1234", "set16:0x20000002:0x1234:255",
      "set8:0x20000000:1", "set8:0x20000001:1:2:0xff",
      "set:0x20000000:0xdeadbeef", "set:0x20000002:257", "set:0x20000000:1:2:0xff" }

\* entries with fewer or more parameters than their form has
ArityForms ==
    { "halt:x", "step:2:x", "reset:halt:x", "run:nodebug:x", "sleep:1:2",
      "dump32:0x20000000:16:1", "dump8:zz:1:2", "dump16", "dump:1:2:3",
      "set32:0x20000000", "set:0x20000000", "fill8:0x20000000:4",
      "reg", "reg:R0:zz:1" }

\* further forms of reg: every register, and a value that is no number
RegForms == { "reg:all", "reg:R0:zz", "reg:PC:0x20000001" }

\* set and fill with an address, a size or a data value that is no number
\* or too big
BadNumberForms ==
    { "set32:4G:1", "set32:0x20000000:1:zz", "set32:0x20000000:0x100000000",
      "set16:zz:1", "set16:0x20000000:1:65536",
      "set8:0x20000001:1:2:256", "set8:1.5:1",
      "set:0x20000000:4G", "set:0x20000000:1:2:zz",
      "fill8:zz:4:1", "fill8:0x20000000:zz:1", "fill8:0x20000000:4:256",
      "fill8:0x20000000:4:1:zz" }

\* entries with an address, a size or a data value written with a minus sign
NegativeForms ==
    { "set32:0x20000000:-1", "set32:-4:1", "set32:0x20000002:-1",
      "set16:0x20000000:-1", "set8:0x20000000:-1", "set8:-1:1",
      "set:0x20000000:-256", "fill8:0x20000000:-4:1", "fill8:0x20000000:4:-1",
      "dump32:-4", "dump8:0x20000000:-1K", "reg:R0:-1", "set32:0x20000000:-0" }

Batches == SeqsUpTo(Catalogue, MaxBatch) \cup { e.batch : e \in EndToEnd }
               \cup { <<a>> : a \in SetForms \cup ArityForms \cup RegForms
                                       \cup BadNumberForms \cup NegativeForms }

InitActions == StartApp(Batches, {0}, {FALSE})

NextActions ==
    \/ ProcessAction
    \/ ProcessReturn
    \/ HandlerCall
    \/ HandlerRaise
    \/ HandlerReturn

SpecActions == InitActions /\ [][NextActions]_vars

(***************************************************************************)
(* convert_numeric called on its own.                                      *)
(***************************************************************************)
\* convert_numeric(num, max_bits)
ConvertNumeric ==
    /\ conv_pc = "call"
    /\ conv_pc' = "returned"
    /\ conv_ret' = convert_numeric(conv_num, conv_max_bits)
    /\ UNCHANGED <<conv_num, conv_max_bits, pb_pc, pb_addr, pb_data, pb_width>>
    /\ UNCHANGED <<selVars, xferVars, appVars>>

\* literals that int(text, 0) and the unit suffixes accept, each with the
\* value Python gives it
Literals ==
    { [text |-> "0", val |-> [neg |-> FALSE, mag |-> <<>>]],
      [text |-> "1", val |-> [neg |-> FALSE, mag |-> <<1>>]],
      [text |-> "255", val |-> [neg |-> FALSE, mag |-> <<255>>]],
      [text |-> "256", val |-> [neg |-> FALSE, mag |-> <<0, 1>>]],
      [text |-> "257", val |-> [neg |-> FALSE, mag |-> <<1, 1>>]],
      [text |-> "65535", val |-> [neg |-> FALSE, mag |-> <<255, 255>>]],
      [text |-> "65536", val |-> [neg |-> FALSE, mag |-> <<0, 0, 1>>]],
      [text |-> "4294967295", val |-> [neg |-> FALSE, mag |-> <<255, 255, 255, 255>>]],
      [text |-> "4294967296", val |-> [neg |-> FALSE, mag |-> <<0, 0, 0, 0, 1>>]],
      [text |-> "4294967297", val |-> [neg |-> FALSE, mag |-> <<1, 0, 0, 0, 1>>]],
      [text |-> "0xff", val |-> [neg |-> FALSE, mag |-> <<255>>]],
      [text |-> "0x100", val |-> [neg |-> FALSE, mag |-> <<0, 1>>]],
      [text |-> "0XFFFF", val |-> [neg |-> FALSE, mag |-> <<255, 255>>]],
      [text |-> "0x10000", val |-> [neg |-> FALSE, mag |-> <<0, 0, 1>>]],
      [text |-> "0xffffffff", val |-> [neg |-> FALSE, mag |-> <<255, 255, 255, 255>>]],
      [text |-> "0x100000000", val |-> [neg |-> FALSE, mag |-> <<0, 0, 0, 0, 1>>]],
      [text |-> "0xdeadbeef", val |-> [neg |-> FALSE, mag |-> <<239, 190, 173, 222>>]],
      [text |-> "0x20000000", val |-> [neg |-> FALSE, mag |-> <<0, 0, 0, 32>>]],
      [text |-> "0o377", val |-> [neg |-> FALSE, mag |-> <<255>>]],
      [text |-> "0o400", val |-> [neg |-> FALSE, mag |-> <<0, 1>>]],
      [text |-> "0b11111111", val |-> [neg |-> FALSE, mag |-> <<255>>]],
      [text |-> "0b100000000", val |-> [neg |-> FALSE, mag |-> <<0, 1>>]],
      [text |-> "1K", val |-> [neg |-> FALSE, mag |-> <<0, 4>>]],
      [text |-> "1k", val |-> [neg |-> FALSE, mag |-> <<0, 4>>]],
      [text |-> "63K", val |-> [neg |-> FALSE, mag |-> <<0, 252>>]],
      [text |-> "64K", val |-> [neg |-> FALSE, mag |-> <<0, 0, 1>>]],
      [text |-> "4M", val |-> [neg |-> FALSE, mag |-> <<0, 0, 64>>]],
      [text |-> "4194303K", val |-> [neg |-> FALSE, mag |-> <<0, 252, 255, 255>>]],
      [text |-> "4194304K", val |-> [neg |-> FALSE, mag |-> <<0, 0, 0, 0, 1>>]],
      [text |-> "3G", val |-> [neg |-> FALSE, mag |-> <<0, 0, 0, 192>>]],
      [text |-> "4G", val |-> [neg |-> FALSE, mag |-> <<0, 0, 0, 0, 1>>]],
      [text |-> "4g", val |-> [neg |-> FALSE, mag |-> <<0, 0, 0, 0, 1>>]],
      [text |-> "0K", val |-> [neg |-> FALSE, mag |-> <<>>]],
      [text |-> "0x3fG", val |-> [neg |-> FALSE, mag |-> <<0, 0, 0, 192, 15>>]],
      [text |-> "0x40M", val |-> [neg |-> FALSE, mag |-> <<0, 0, 0, 4>>]],
      [text |-> " 12 ", val |-> [neg |-> FALSE, mag |-> <<12>>]],
      [text |-> "+5", val |-> [neg |-> FALSE, mag |-> <<5>>]],
      [text |-> "1_000", val |-> [neg |-> FALSE, mag |-> <<232, 3>>]],
      [text |-> "0x_ff", val |-> [neg |-> FALSE, mag |-> <<255>>]],
      [text |-> "00", val |-> [neg |-> FALSE, mag |-> <<>>]],
      [text |-> "1 K", val |-> [neg |-> FALSE, mag |-> <<0, 4>>]],
      [text |-> "18446744073709551616", val |-> [neg |-> FALSE, mag |-> <<0, 0, 0, 0, 0, 0, 0, 0, 1>>]],
      [text |-> "0x20000001", val |-> [neg |-> FALSE, mag |-> <<1, 0, 0, 32>>]],
      [text |-> "0x20000002", val |-> [neg |-> FALSE, mag |-> <<2, 0, 0, 32>>]],
      [text |-> "0x1234", val |-> [neg |-> FALSE, mag |-> <<52, 18>>]],
      [text |-> "2", val |-> [neg |-> FALSE, mag |-> <<2>>]],
      [text |-> "3", val |-> [neg |-> FALSE, mag |-> <<3>>]],
      [text |-> "4", val |-> [neg |-> FALSE, mag |-> <<4>>]],
      [text |-> "7", val |-> [neg |-> FALSE, mag |-> <<7>>]],
      [text |-> "16", val |-> [neg |-> FALSE, mag |-> <<16>>]],
      [text |-> "0x10", val |-> [neg |-> FALSE, mag |-> <<16>>]],
      [text |-> "0xaa", val |-> [neg |-> FALSE, mag |-> <<170>>]],
      [text |-> "-1", val |-> [neg |-> TRUE, mag |-> <<1>>]],
      [text |-> "-256", val |-> [neg |-> TRUE, mag |-> <<0, 1>>]],
      [text |-> "-1K", val |-> [neg |-> TRUE, mag |-> <<0, 4>>]],
      [text |-> "-0", val |-> [neg |-> FALSE, mag |-> <<>>]],
      [text |-> "-4G", val |-> [neg |-> TRUE, mag |-> <<0, 0, 0, 0, 1>>]] }

NotLiterals ==
    { "zz", "K", "0x", "1__0", "_1", "1_", "010", "0b2", "0o8", "12a", "1.5", "--1", "+", "0xK", " ", "0x1 0" }

\* the widths the handlers convert at: data of set8/fill8, of set16, and
\* the default
MaxBits == {8, 16, 32}

InitConvert ==
    /\ BoundSession("V2")
    /\ IdleXfer("V2", "open")
    /\ IdleApp
    /\ conv_pc = "call"
    /\ conv_num \in { l.text : l \in Literals } \cup NotLiterals \cup {""}
    /\ conv_max_bits \in MaxBits
    /\ conv_ret = [exc |-> NoError, val |-> Zero]
    /\ pb_pc = "idle"
    /\ pb_addr = Zero
    /\ pb_data = <<>>
    /\ pb_width = 1

NextConvert == ConvertNumeric

SpecConvert == InitConvert /\ [][NextConvert]_vars

(***************************************************************************)
(* print_buffer called on its own.                                         *)
(***************************************************************************)
\* print_buffer(addr, data, hex_line, verbose)
PrintBuffer ==
    /\ pb_pc = "call"
    /\ pb_pc' = "returned"
    /\ stdout' = stdout \o print_buffer(pb_addr, pb_data, pb_width, verbose, isatty)
    /\ UNCHANGED <<pb_addr, pb_data, pb_width, conv_pc, conv_num, conv_max_bits, conv_ret>>
    /\ UNCHANGED <<actions, verbose, isatty, app_pc, act_i, h_name, h_params, h_rets,
                   trace, h_exc, fail_i, app_err, core_halted, core_regs, mem>>
    /\ UNCHANGED <<selVars, xferVars>>

\* byte i of a buffer of n bytes: all zero, zero but for the last byte, or
\* counting up through the printable characters
BufByte(kind, i, n) ==
    CASE kind = "zero"  -> 0
      [] kind = "tail"  -> IF i = n THEN 255 ELSE 0
      [] kind = "count" -> (i + 29) % 256

BufLens == {0, 1, 15, 16, 17, 31, 32, 33, 16 * MaxChunks}

Buffers == { [i \in 1..n |-> BufByte(kind, i, n)] :
                n \in BufLens, kind \in {"zero", "tail", "count"} }

\* 0, 0xfe0 (the third window starts a page) and 0x20000000
BufAddrs == { <<>>, <<224, 15>>, <<0, 0, 0, 32>> }

InitPrint ==
    /\ BoundSession("V2")
    /\ IdleXfer("V2", "open")
    /\ actions = <<>>
    /\ verbose \in 0..2
    /\ isatty \in BOOLEAN
    /\ app_pc = "returned"
    /\ act_i = 1
    /\ h_name = ""
    /\ h_params = <<>>
    /\ h_rets = <<>>
    /\ trace = <<>>
    /\ stdout = <<>>
    /\ h_exc = NoError
    /\ app_err = NoError
    /\ fail_i = 0
    /\ core_halted = FALSE
    /\ core_regs = [r \in { REGISTERS[i] : i \in 1..Len(REGISTERS) } |-> Zero]
    /\ mem = <<>>
    /\ conv_pc = "idle"
    /\ conv_num = ""
    /\ conv_max_bits = 32
    /\ conv_ret = [exc |-> NoError, val |-> Zero]
    /\ pb_pc = "call"
    /\ pb_addr \in { [neg |-> FALSE, mag |-> a] : a \in BufAddrs }
    /\ pb_data \in Buffers
    /\ pb_width \in {1, 2, 4}

NextPrint == PrintBuffer

SpecPrint == InitPrint /\ [][NextPrint]_vars

(***************************************************************************)
(* Properties of process_actions.                                          *)
(***************************************************************************)
\* the text of an entry before its first ':'
NameToken(action) ==
    LET colons == { i \in 1..Len(action) : Ch(action, i) = ":" }
    IN  IF colons = {} THEN action
        ELSE SubSeq(action, 1, (CHOOSE i \in colons : \A j \in colons : i <= j) - 1)

IsHandlerEvent(e) == e.ev = "handler"

HandlerEvents == SelectSeq(trace, IsHandlerEvent)

\* entry i has been taken from the batch
Processed(i) == i < act_i \/ (i = act_i /\ app_pc # "loop")

\* C1: once the processing of entry i has raised (unknown action, handler
\* PyswdException, transport or debug-core exception), process_actions is
\* left and the trace holds no handler invocation and no debug-core call of
\* an entry after i.
C1_AbortOnFirstFailure ==
    fail_i # 0 =>
        /\ app_pc = "raised"
        /\ app_err # NoError
        /\ \A k \in 1..Len(trace) : trace[k].entry <= fail_i

C1_Witness ==
    /\ fail_i = 1
    /\ Len(actions) = 2
    /\ NameToken(actions[2]) \in HandlerNames
    /\ h_exc.type = "StlinkComException"
    /\ app_pc = "raised"

\* C2 as claimed: every failure raised by a handler, transport and debug-core
\* failures included, leaves process_actions annotated with the action name.
C2_AnyFailureAnnotated ==
    (app_pc = "raised" /\ h_exc # NoError) =>
        /\ app_err.type = "PyswdException"
        /\ app_err.msg = NameToken(actions[fail_i]) \o ": " \o h_exc.msg

\* C2 as amended: a PyswdException raised by a handler leaves
\* process_actions as a PyswdException whose message is the action name,
\* ": " and the original message; any other exception surfacing through the
\* handler leaves process_actions as it was raised, without the name.
C2_PyswdFailureAnnotated ==
    (app_pc = "raised" /\ h_exc # NoError) =>
        IF h_exc.type = "PyswdException"
        THEN /\ app_err.type = "PyswdException"
             /\ app_err.msg = NameToken(actions[fail_i]) \o ": " \o h_exc.msg
        ELSE app_err = h_exc

C2_Witness ==
    /\ app_pc = "raised"
    /\ h_exc.kind = "RangeError"
    /\ app_err.msg = "set8: 256 is too big, number must fit into 8 bits"

\* C3: the handlers are invoked in the order of the batch, one invocation
\* per entry, each with the name and parameters of its entry; the calls of
\* an entry follow its handler's invocation and precede the next one; a
\* batch that returns has had every entry's handler invoked.
C3_InOrderOnce ==
    /\ \A j \in 1..Len(HandlerEvents) :
          /\ HandlerEvents[j].entry = j
          /\ HandlerEvents[j].fn = NameToken(actions[j])
          /\ join(":", <<HandlerEvents[j].fn>> \o HandlerEvents[j].params) = actions[j]
    /\ \A k \in 1..Len(trace) :
          /\ \A l \in k..Len(trace) : trace[k].entry <= trace[l].entry
          /\ trace[k].ev = "call" =>
                \E j \in 1..(k - 1) : /\ trace[j].ev = "handler"
                                      /\ trace[j].entry = trace[k].entry
    /\ app_pc = "returned" => Len(HandlerEvents) = Len(actions)

C3_Witness ==
    /\ app_pc = "returned"
    /\ Len(actions) = 2
    /\ \A i \in 1..2 : \E k \in 1..Len(trace) : trace[k].ev = "call" /\ trace[k].entry = i
    /\ Len(trace) >= 6

\* C4: an entry whose name token is not the name of a handler makes
\* process_actions raise the "is not implemented" PyswdException for that
\* entry, with no handler invoked and no debug-core call made for it.
C4_UnknownAction ==
    \A i \in 1..Len(actions) :
        (Processed(i) /\ NameToken(actions[i]) \notin HandlerNames) =>
            /\ app_pc = "raised"
            /\ fail_i = i
            /\ h_exc = NoError
            /\ app_err = PyswdException("UnknownAction",
                             "action '" \o actions[i] \o "' is not implemented")
            /\ startswith(actions[i], NameToken(actions[i]))
            /\ \A k \in 1..Len(trace) : trace[k].entry # i

C4_Witness ==
    /\ Len(actions) = 2
    /\ actions[2] = "erase:0"
    /\ fail_i = 2
    /\ app_err.kind = "UnknownAction"
    /\ trace # <<>>

(***************************************************************************)
(* Properties of the device selection.                                     *)
(***************************************************************************)
IsPrefix(p, s) == \E k \in 0..Len(s) : SubSeq(s, 1, k) = p
IsSuffix(p, s) == \E k \in 0..Len(s) : SubSeq(s, k + 1, Len(s)) = p

\* the candidates on the bus, as <<profile, position>>
Candidates == { c \in {"V2", "V21"} \X (1..MaxDevices) : c[2] <= Len(attached[c[1]]) }

CandidateSerial(c) == HexJoin(attached[c[1]][c[2]])

\* the candidates a selection with serial_arg must retain
Retained == { c \in Candidates :
                \/ serial_arg = ""
                \/ IsPrefix(serial_arg, CandidateSerial(c))
                \/ IsSuffix(serial_arg, CandidateSerial(c)) }

Enumerated == sel_pc = "done" /\ usb_backend

\* C5: once the devices are enumerated, the constructor binds a device if
\* and only if exactly one candidate is retained; none retained raises
\* StlinkComNotFound, two or more StlinkComMoreDevices, and in both failure
\* cases _dev is None.
C5_BindsIffExactlyOne ==
    Enumerated =>
        /\ (com_dev # NoDev) <=> (Cardinality(Retained) = 1)
        /\ (com_dev # NoDev) => sel_exc = NoExc
        /\ Cardinality(Retained) = 0 =>
               sel_exc.type = "StlinkComNotFound" /\ com_dev = NoDev
        /\ Cardinality(Retained) >= 2 =>
               sel_exc.type = "StlinkComMoreDevices" /\ com_dev = NoDev

C5_Witness ==
    /\ Enumerated
    /\ com_dev # NoDev
    /\ serial_arg # ""
    /\ Cardinality(Candidates) = 3
    /\ Cardinality(Retained) = 1

SeqRange(s) == { s[i] : i \in 1..Len(s) }

ThreeProbes == [V2 |-> << <<171, 205, 17, 17>>, <<171, 205, 34, 34>> >>,
                V21 |-> << <<239, 0, 17, 17>> >>]

\* C6: the retained candidates are those whose serial starts or ends with
\* the filter (all of them for an empty filter); StlinkComMoreDevices carries
\* the serial of every retained candidate and of no other, and a bound
\* device is the retained one.  For ABCD1111, ABCD2222, EF001111: 1111 is
\* ambiguous naming the first and third, ABCD naming the first two, and
\* ABCD1111 selects one.
C6_FilterAndSerials ==
    Enumerated =>
        /\ sel_exc.type = "StlinkComMoreDevices" =>
              /\ SeqRange(sel_exc.serial_numbers) = { CandidateSerial(c) : c \in Retained }
              /\ Len(sel_exc.serial_numbers) = Cardinality(Retained)
        /\ sel_exc.type # "StlinkComMoreDevices" => Cardinality(Retained) < 2
        /\ com_dev # NoDev =>
              \E c \in Retained : com_dev.cls = c[1] /\ serial_no(com_dev) = CandidateSerial(c)
        /\ attached = ThreeProbes =>
              /\ serial_arg = "1111" =>
                    /\ sel_exc.type = "StlinkComMoreDevices"
                    /\ sel_exc.serial_numbers = <<"ABCD1111", "EF001111">>
              /\ serial_arg = "ABCD" =>
                    /\ sel_exc.type = "StlinkComMoreDevices"
                    /\ sel_exc.serial_numbers = <<"ABCD1111", "ABCD2222">>
              /\ serial_arg = "ABCD1111" =>
                    /\ sel_exc = NoExc
                    /\ serial_no(com_dev) = "ABCD1111"

C6_Witness ==
    /\ Enumerated
    /\ attached = ThreeProbes
    /\ serial_arg = "1111"
    /\ sel_exc.type = "StlinkComMoreDevices"
    /\ Len(sel_exc.serial_numbers) = 2

(***************************************************************************)
(* Properties of xfer.                                                     *)
(***************************************************************************)
Called == n_xfers > 0

\* C7: a command longer than _STLINK_CMD_SIZE makes xfer raise
\* StlinkComException with no device operation issued; a command of exactly
\* _STLINK_CMD_SIZE bytes passes the length check and is written as it is.
C7_FrameTooLarge ==
    Called =>
        /\ Len(cmd_arg) > _STLINK_CMD_SIZE =>
              /\ xfer_pc = "idle"
              /\ xfer_status = "raised"
              /\ xfer_exc = "StlinkComException"
              /\ io_log = <<>>
              /\ command = cmd_arg
        /\ Len(cmd_arg) = _STLINK_CMD_SIZE =>
              /\ command = cmd_arg
              /\ io_log # <<>> => io_log[1].op = "write" /\ io_log[1].bytes = cmd_arg
              /\ (xfer_status = "raised" /\ xfer_exc = "StlinkComException") => io_log # <<>>
              /\ (xfer_status = "none") => xfer_pc # "idle"

C7_Witness ==
    /\ Called
    /\ Len(cmd_arg) = _STLINK_CMD_SIZE + 1
    /\ xfer_status = "raised"
    /\ io_log = <<>>
    /\ dev_usb = "open"

\* C8: the first device operation of every xfer is a write to the OUT pipe
\* of exactly _STLINK_CMD_SIZE bytes: the supplied command followed by
\* zeros.
C8_HeaderPadded ==
    io_log # <<>> =>
        LET h == io_log[1]
            n == Len(cmd_arg)
        IN  /\ h.op = "write"
            /\ h.pipe = PIPE_OUT(dev_cls)
            /\ n <= _STLINK_CMD_SIZE
            /\ Len(h.bytes) = _STLINK_CMD_SIZE
            /\ h.size = _STLINK_CMD_SIZE
            /\ \A i \in 1.._STLINK_CMD_SIZE :
                  h.bytes[i] = IF i <= n THEN cmd_arg[i] ELSE 0

C8_Witness ==
    /\ io_log # <<>>
    /\ Len(cmd_arg) = 5
    /\ cmd_arg[5] = 5
    /\ io_log[1].result = _STLINK_CMD_SIZE

IsShort(e) == e.op = "write" /\ e.result # USBError /\ e.result # e.size

Flag(b) == IF b THEN 1 ELSE 0

\* C9: the device operations of one xfer are, in order, the header write,
\* the payload write (only with a payload), the read (only with
\* rx_length > 0); a write reporting fewer bytes than requested raises
\* StlinkComException and is the last operation of that xfer.
C9_OrderAndShortWrite ==
    /\ \A i \in 1..Len(io_log) :
          LET e == io_log[i]
          IN  /\ i = 1 => e.op = "write" /\ e.bytes = command
              /\ (i > 1 /\ e.op = "write") =>
                    i = 2 /\ Truthy(data) /\ e.bytes = data.bytes
              /\ e.op = "read" =>
                    /\ rx_length > 0
                    /\ e.size = rx_length
                    /\ i = Len(io_log)
                    /\ i = 2 + Flag(Truthy(data))
                    /\ \A j \in 1..(i - 1) : io_log[j].op = "write"
              /\ IsShort(e) =>
                    /\ i = Len(io_log)
                    /\ xfer_pc = "idle"
                    /\ xfer_status = "raised"
                    /\ xfer_exc = "StlinkComException"
    /\ xfer_status = "returned" =>
          Len(io_log) = 1 + Flag(Truthy(data)) + Flag(rx_length > 0)

C9_Witness ==
    /\ Len(io_log) = 2
    /\ ~IsShort(io_log[1])
    /\ IsShort(io_log[2])
    /\ rx_length > 0
    /\ xfer_status = "raised"

\* C10: an xfer that returns with rx_length > 0 returns exactly rx_length
\* bytes; with rx_length = 0 it issues no read and returns None.
C10_ExactResponse ==
    xfer_status = "returned" =>
        IF rx_length > 0
        THEN ~xfer_ret.none /\ Len(xfer_ret.bytes) = rx_length
        ELSE xfer_ret.none /\ \A i \in 1..Len(io_log) : io_log[i].op # "read"

\* the last device operation of the xfer faulted: USBError (a timeout is
\* one) or a write that reported fewer bytes than requested
FaultedOp(e) == e.result = USBError \/ IsShort(e)

\* C11: an xfer that ended on a faulted write or read has raised
\* StlinkComException and left the session without its device handle, and
\* every xfer that fails fails with StlinkComException.
C11_FaultInvalidates ==
    /\ (xfer_status = "raised" /\ io_log # <<>> /\ FaultedOp(io_log[Len(io_log)])) =>
          xfer_exc = "StlinkComException" /\ dev_usb = "None"
    /\ xfer_status = "raised" => xfer_exc = "StlinkComException"

\* C12: once the session is torn down, finalize() has been called exactly
\* once on the usb device, whether or not a USBError occurred before.
C12_FinalizedOnce == base_deleted => usb_finalized = 1

(***************************************************************************)
(* Properties of the handlers.                                             *)
(***************************************************************************)
IsCallEvent(e) == e.ev = "call"

\* the entry whose handler was invoked last
LastEntry == HandlerEvents[Len(HandlerEvents)].entry

\* the debug-core calls made so far for entry i, in order
CallsOf(i) == SelectSeq(trace, LAMBDA e : IsCallEvent(e) /\ e.entry = i)

FnsOf(i) == [k \in 1..Len(CallsOf(i)) |-> CallsOf(i)[k].fn]

\* the handler invoked last is that of name, and it has returned
Finished(name) ==
    /\ HandlerEvents # <<>>
    /\ h_name = name
    /\ app_pc = "loop"
    /\ act_i = LastEntry + 1

RegisterCalls == {"get_reg", "get_reg_all", "set_reg"}

\* C13: the first call of reg is is_halted; once it has answered, a
\* register access is preceded by halt exactly when the answer was false,
\* run is made only after halt and after the register access, a core found
\* halted is neither halted nor resumed, and a reg:R0 that returns has made
\* is_halted, halt, get_reg, run on a running core and is_halted, get_reg
\* on a halted one.
C13_RegHaltResume ==
    (HandlerEvents # <<>> /\ h_name = "reg") =>
        LET fns == FnsOf(LastEntry)
        IN  /\ fns # <<>> => fns[1] = "is_halted"
            /\ \A k \in 1..Len(fns) : fns[k] \in RegisterCalls => h_rets # <<>>
            /\ h_rets # <<>> =>
                  LET halted == h_rets[1].flag
                  IN  /\ \A k \in 1..Len(fns) :
                            /\ fns[k] \in RegisterCalls =>
                                  ((\E j \in 1..(k - 1) : fns[j] = "halt") <=> ~halted)
                            /\ fns[k] = "run" =>
                                  /\ ~halted
                                  /\ \E j \in 1..(k - 1) : fns[j] = "halt"
                                  /\ \E j \in 1..(k - 1) : fns[j] \in RegisterCalls
                                  /\ k = Len(fns)
                            /\ fns[k] = "halt" => ~halted /\ k = 2
                      /\ (Finished("reg") /\ h_params = <<"R0">>) =>
                            fns = IF halted THEN <<"is_halted", "get_reg">>
                                  ELSE <<"is_halted", "halt", "get_reg", "run">>

C13_Witness ==
    /\ Finished("reg")
    /\ h_params = <<"R0">>
    /\ ~h_rets[1].flag
    /\ FnsOf(LastEntry) = <<"is_halted", "halt", "get_reg", "run">>
    /\ ~core_halted

(***************************************************************************)
(* Properties of convert_numeric.                                          *)
(***************************************************************************)
IsLiteral(text) == \E l \in Literals : l.text = text

\* the value of a literal of the table
Parsed(text) == (CHOOSE l \in Literals : l.text = text).val

\* val >= 2^bits, for bits a multiple of 8
AtLeastPow2(val, bits) == ~val.neg /\ Len(val.mag) > bits \div 8

\* 0 <= val < 2^bits, for bits a multiple of 8
InRange(val, bits) == ~val.neg /\ Len(val.mag) <= bits \div 8

\* C14: for a literal whose value, multiplier applied, is at least
\* 2^max_bits convert_numeric raises the "is too big" PyswdException; for
\* one whose value is in 0 .. 2^max_bits - 1 it returns that value; at 8
\* bits 255 is returned and 256 rejected.
C14_RangeChecked ==
    (conv_pc = "returned" /\ IsLiteral(conv_num)) =>
        LET v == Parsed(conv_num)
        IN  /\ AtLeastPow2(v, conv_max_bits) =>
                  /\ conv_ret.exc.type = "PyswdException"
                  /\ conv_ret.exc.kind = "RangeError"
            /\ InRange(v, conv_max_bits) => conv_ret = [exc |-> NoError, val |-> v]
            /\ (conv_max_bits = 8 /\ conv_num = "255") =>
                  conv_ret = [exc |-> NoError, val |-> [neg |-> FALSE, mag |-> <<255>>]]
            /\ (conv_max_bits = 8 /\ conv_num = "256") =>
                  conv_ret.exc.kind = "RangeError"

C14_Witness ==
    /\ conv_pc = "returned"
    /\ conv_num = "4G"
    /\ conv_max_bits = 32
    /\ conv_ret.exc.kind = "RangeError"

(***************************************************************************)
(* Properties of print_buffer.                                             *)
(***************************************************************************)
\* print_buffer has run on 32 zero bytes in units of one byte, verbosity 0
ZeroDump32 ==
    /\ pb_pc = "returned"
    /\ verbose = 0
    /\ pb_width = 1
    /\ pb_data = [i \in 1..32 |-> 0]

ZeroLine == "00 00 00 00 00 00 00 00 00 00 00 00 00 00 00 00  ................"

\* C15 as claimed: the 32 zero bytes give exactly two lines, the data line
\* of the first window and a single "*".
C15_TwoLines ==
    ZeroDump32 =>
        /\ Len(stdout) = 2
        /\ stdout[1] = FmtHex(pb_addr, 8) \o "  " \o ZeroLine
        /\ stdout[2] = "*"

\* C15 as amended: the 32 zero bytes give exactly three lines, the data
\* line of the first window, a single "*" for the second window, and the
\* end address of the buffer.
C15_ThreeLines ==
    ZeroDump32 =>
        /\ Len(stdout) = 3
        /\ stdout[1] = FmtHex(pb_addr, 8) \o "  " \o ZeroLine
        /\ stdout[2] = "*"
        /\ stdout[3] = FmtHex([neg |-> FALSE, mag |-> Add(pb_addr.mag, 32)], 8)

C15_Witness ==
    /\ ZeroDump32
    /\ pb_addr = Zero
    /\ stdout = <<"00000000  " \o ZeroLine, "*", "00000020">>

(***************************************************************************)
(* Properties of the memory handlers.                                      *)
(***************************************************************************)
CoreFaults == {"StlinkException", "StlinkComException"}

\* C16: a batch that dumps 16 bytes at an aligned address A, sets the word
\* at A to V and dumps the word at A raises nothing of its own (it can
\* only be ended by a fault of the debug core), and when it returns the
\* last line printed is A: V and the last call was the get_mem32 of A.
C16_ReadBack ==
    \A e \in EndToEnd :
        actions = e.batch =>
            /\ app_pc = "raised" => h_exc.type \in CoreFaults /\ app_err = h_exc
            /\ app_pc = "returned" =>
                  /\ stdout # <<>>
                  /\ stdout[Len(stdout)] = e.line
                  /\ Len(stdout) = 2
                  /\ FnsOf(1) = <<"read_mem">>
                  /\ FnsOf(2) = <<"set_mem32">>
                  /\ FnsOf(3) = <<"get_mem32">>
                  /\ \A k \in 1..Len(trace) : trace[k].result = "ok"

C16_Witness ==
    /\ actions = <<"dump32:0x20000000:16", "set32:0x20000000:0xdeadbeef",
                   "dump32:0x20000000">>
    /\ app_pc = "returned"
    /\ stdout = <<"20000000  00000000 00000000 00000000 00000000  ................",
                  "20000000: deadbeef">>

SetNames == {"set", "set8", "set16", "set32"}

\* the handler invoked last belongs to an entry of these names
LastIs(names) == HandlerEvents # <<>> /\ h_name \in names

Aligned4(val) == val.mag = <<>> \/ val.mag[1] % 4 = 0

\* bytes of a data parameter at the width a set variant declares
DataBytes(name, params) ==
    CASE name = "set8"  -> 1
      [] name = "set16" -> 2
      [] name = "set32" -> 4
      [] name = "set"   -> IF Len(params) = 2 THEN 4 ELSE 1

\* the parameters of an accepted set: an address and at least one data
\* value, all literals, the address a 32 bit value and every data value
\* within the declared width
AcceptedSet(name, params) ==
    /\ Len(params) >= 2
    /\ \A k \in 1..Len(params) : IsLiteral(params[k])
    /\ InRange(Parsed(params[1]), 32)
    /\ \A k \in 2..Len(params) : InRange(Parsed(params[k]), 8 * DataBytes(name, params))

\* val in n bytes, least significant first
LittleEndian(val, n) == [i \in 1..n |-> IF i <= Len(val.mag) THEN val.mag[i] ELSE 0]

RECURSIVE Concat(_, _, _)
Concat(params, k, n) ==
    IF k > Len(params) THEN <<>>
    ELSE LittleEndian(Parsed(params[k]), n) \o Concat(params, k + 1, n)

\* an accepted set makes one call: set_mem32(addr, value) when word holds,
\* else write_mem(addr, buf) with buf the data parameters, each little
\* endian at the declared width, in order
OneWrite(word) ==
    LET calls == CallsOf(LastEntry)
    IN  /\ Len(calls) <= 1
        /\ Finished(h_name) => Len(calls) = 1
        /\ (app_pc = "raised" /\ fail_i = LastEntry) =>
              Len(calls) = 1 /\ h_exc.type \in CoreFaults
        /\ calls # <<>> =>
              /\ calls[1].args.addr = Parsed(h_params[1])
              /\ IF word
                 THEN /\ calls[1].fn = "set_mem32"
                      /\ calls[1].args.val = Parsed(h_params[2])
                 ELSE /\ calls[1].fn = "write_mem"
                      /\ calls[1].args.bytes =
                            Concat(h_params, 2, DataBytes(h_name, h_params))

\* C17 as claimed: every set variant with exactly two parameters and a
\* 4-byte-aligned address issues a single set_mem32 and no write_mem, and
\* in every other accepted case a single write_mem of the little-endian
\* concatenation of the data parameters.
C17_EveryVariant ==
    (LastIs(SetNames) /\ AcceptedSet(h_name, h_params)) =>
        OneWrite(Len(h_params) = 2 /\ Aligned4(Parsed(h_params[1])))

\* C17 as amended: set32, and set given exactly two parameters, issue a
\* single set_mem32 when they have exactly two parameters and a
\* 4-byte-aligned address; set8 and set16 always, and set32 and set in
\* every other accepted case, issue a single write_mem of the
\* little-endian concatenation of the data parameters at the declared
\* width (4 bytes for set with two parameters, 1 byte for set with more).
C17_Set32Only ==
    (LastIs(SetNames) /\ AcceptedSet(h_name, h_params)) =>
        OneWrite(/\ h_name \in {"set32", "set"}
                 /\ Len(h_params) = 2
                 /\ Aligned4(Parsed(h_params[1])))

C17_Witness ==
    /\ Finished("set16")
    /\ h_params = <<"0x20000000", "0x1234">>
    /\ FnsOf(LastEntry) = <<"write_mem">>
    /\ CallsOf(LastEntry)[1].args.bytes = <<52, 18>>

(***************************************************************************)
(* Properties of the parameter checks.                                     *)
(***************************************************************************)
\* n parameters are fewer or more than the form of the action allows
BadArity(name, n) ==
    CASE name \in {"dump", "dump8", "dump16", "dump32"} -> n \notin 1..2
      [] name \in SetNames                              -> n < 2
      [] name = "fill8"                                 -> n < 3
      [] name = "reg"                                   -> n \notin 1..2
      [] name \in {"sleep", "reset", "run", "step"}     -> n > 1
      [] name = "halt"                                  -> n > 0
      [] OTHER                                          -> FALSE

\* C18: a handler invoked with fewer or more parameters than its form
\* allows makes no debug-core call, does not return, and the exception it
\* raises is the PyswdException of a parameter-count check.
C18_ArityChecked ==
    (HandlerEvents # <<>> /\ BadArity(h_name, Len(h_params))) =>
        /\ CallsOf(LastEntry) = <<>>
        /\ ~Finished(h_name)
        /\ (app_pc = "raised" /\ fail_i = LastEntry) => h_exc.kind = "ArityError"

(***************************************************************************)
(* Properties of reg, set and fill on failure.                             *)
(***************************************************************************)
\* the handler invoked last has raised a PyswdException of its own
FailedItself ==
    /\ app_pc = "raised"
    /\ fail_i = LastEntry
    /\ h_exc.type = "PyswdException"

\* C19: when reg found the core running, the core is running again once
\* reg has ended, whether it returned or raised a PyswdException (too many
\* parameters, a value that fails numeric conversion).
C19_RunStatePreserved ==
    (/\ LastIs({"reg"})
     /\ h_rets # <<>>
     /\ ~h_rets[1].flag
     /\ Finished("reg") \/ FailedItself) => ~core_halted

\* memory m after the call of event e
Written(m, e) ==
    IF e.ev = "call" /\ e.result = "ok"
    THEN CASE e.fn = "write_mem" -> WriteBytes(m, e.args.addr.mag, e.args.bytes)
           [] e.fn = "set_mem32" ->
                 WriteBytes(m, e.args.addr.mag, LittleEndian(e.args.val, 4))
           [] e.fn = "fill_mem"  ->
                 WriteBytes(m, e.args.addr.mag,
                     [i \in 1..SmallInt(e.args.size) |->
                         e.args.bytes[((i - 1) % Len(e.args.bytes)) + 1]])
           [] OTHER              -> m
    ELSE m

\* memory m after the calls of a sequence of events
RECURSIVE Replay(_, _)
Replay(m, events) ==
    IF events = <<>> THEN m
    ELSE Bind(Written(m, Head(events)), LAMBDA next : Replay(next, Tail(events)))

\* the events of the entries before entry i
Before(i) == SelectSeq(trace, LAMBDA e : e.entry < i)

ConversionErrors == {"FormatError", "RangeError"}

\* C20: a set8, set16, set32, set or fill8 that fails on a number (wrong
\* format or too big) has made no debug-core call, and memory is what the
\* entries before it left.
C20_NoWriteOnBadNumber ==
    (/\ LastIs(SetNames \cup {"fill8"})
     /\ FailedItself
     /\ h_exc.kind \in ConversionErrors) =>
        /\ CallsOf(LastEntry) = <<>>
        /\ mem = Replay(<<>>, Before(LastEntry))

C20_Witness ==
    /\ actions = <<"set32:0x20000000:0xdeadbeef", "set8:0x20000000:256">>
    /\ FailedItself
    /\ fail_i = 2
    /\ h_exc.kind = "RangeError"
    /\ ReadBytes(mem, <<0, 0, 0, 32>>, 4) = <<239, 190, 173, 222>>

(***************************************************************************)
(* The range of what convert_numeric returns.                              *)
(***************************************************************************)
\* C21: every value convert_numeric(text, max_bits) returns lies in
\* 0 .. 2^max_bits - 1, literals with a leading minus sign included.
C21_ReturnsInRange ==
    (conv_pc = "returned" /\ conv_ret.exc = NoError) =>
        InRange(conv_ret.val, conv_max_bits)

\* the arguments of a call into the debug core are words and bytes
ArgsInRange(e) ==
    /\ InRange(e.args.addr, 32)
    /\ InRange(e.args.size, 32)
    /\ InRange(e.args.val, 32)
    /\ IsByteList(e.args.bytes)

\* the consequence C21 draws for the handlers: every address, size and
\* data value passed to the debug core is non-negative and fits its width
CoreArgsInRange ==
    \A k \in 1..Len(trace) : IsCallEvent(trace[k]) => ArgsInRange(trace[k])
====
